---- MODULE Spec2Model ----
(***************************************************************************)
(* Workflow runtime of easio-mvp: one live session over a loaded workflow  *)
(* graph (backend/runtime/factory.py, backend/worker.py) and one           *)
(* integration-tool invocation with its credential lifecycle               *)
(* (backend/runtime/tool_registry.py).                                     *)
(***************************************************************************)
EXTENDS Integers, Sequences, FiniteSets, TLC

(***************************************************************************)
(* Bounds of the model.                                                    *)
(***************************************************************************)
MaxHistory == 1

MaxAnnounced == 1

(***************************************************************************)
(* Identifiers.                                                            *)
(***************************************************************************)
None == "none"

AgentIds == {"a1", "a2"}

\* an agent id that is not a node of the loaded version
ForeignAgentId == "a9"

PathIds == {"p1", "p2"}

\* variable names, listed in the order Python's sorted() gives them
VarNameOrder == <<"accountId", "consent">>

VarNames == {VarNameOrder[i] : i \in 1..Len(VarNameOrder)}


(***************************************************************************)
(* Values.  A JSON/Python value is a record of one shape; text is a        *)
(* sequence of one-character strings so that strip(), lower(), str() and   *)
(* int() are computed, not assumed.                                        *)
(***************************************************************************)
JNull == [t |-> "null", s |-> <<>>, b |-> FALSE, n |-> 0]

JStr(cs) == [t |-> "str", s |-> cs, b |-> FALSE, n |-> 0]

JBool(x) == [t |-> "bool", s |-> <<>>, b |-> x, n |-> 0]

JInt(k) == [t |-> "int", s |-> <<>>, b |-> FALSE, n |-> k]

\* a float, kept as an integer number of tenths
JFloat(tenths) == [t |-> "float", s |-> <<>>, b |-> FALSE, n |-> tenths]

\* the float infinity, which a JSON number too large for a double parses to
JInf == [t |-> "inf", s |-> <<>>, b |-> FALSE, n |-> 0]

UpperChars == <<"A","B","C","D","E","F","G","H","I","J","K","L","M",
                "N","O","P","Q","R","S","T","U","V","W","X","Y","Z">>

LowerChars == <<"a","b","c","d","e","f","g","h","i","j","k","l","m",
                "n","o","p","q","r","s","t","u","v","w","x","y","z">>

DigitChars == <<"0","1","2","3","4","5","6","7","8","9">>

WhiteChars == {" ", "\t", "\n", "\r"}

IndexIn(c, seq) == IF \E i \in 1..Len(seq) : seq[i] = c
                   THEN CHOOSE i \in 1..Len(seq) : seq[i] = c
                   ELSE 0

LowerChar(c) == IF IndexIn(c, UpperChars) > 0 THEN LowerChars[IndexIn(c, UpperChars)] ELSE c

StrLower(cs) == [i \in 1..Len(cs) |-> LowerChar(cs[i])]

RECURSIVE LStrip(_)
LStrip(cs) == IF cs # <<>> /\ Head(cs) \in WhiteChars THEN LStrip(Tail(cs)) ELSE cs

RECURSIVE RStrip(_)
RStrip(cs) == IF cs # <<>> /\ cs[Len(cs)] \in WhiteChars
              THEN RStrip(SubSeq(cs, 1, Len(cs) - 1))
              ELSE cs

StrStrip(cs) == RStrip(LStrip(cs))

IsDigits(cs) == cs # <<>> /\ \A i \in 1..Len(cs) : IndexIn(cs[i], DigitChars) > 0

RECURSIVE DigitsValue(_)
DigitsValue(cs) == IF cs = <<>> THEN 0
                   ELSE 10 * DigitsValue(SubSeq(cs, 1, Len(cs) - 1))
                        + (IndexIn(cs[Len(cs)], DigitChars) - 1)

RECURSIVE NatToChars(_)
NatToChars(k) == IF k < 10 THEN <<DigitChars[k + 1]>>
                 ELSE NatToChars(k \div 10) \o <<DigitChars[(k % 10) + 1]>>

IntToChars(k) == IF k < 0 THEN <<"-">> \o NatToChars(0 - k) ELSE NatToChars(k)

\* Python int(text): surrounding whitespace and one leading sign allowed
SignedBody(cs) == IF cs # <<>> /\ Head(cs) \in {"+", "-"} THEN Tail(cs) ELSE cs

IntParses(cs) == IsDigits(SignedBody(StrStrip(cs)))

IntParse(cs) == LET body == StrStrip(cs)
                IN  IF body # <<>> /\ Head(body) = "-"
                    THEN 0 - DigitsValue(Tail(body))
                    ELSE DigitsValue(SignedBody(body))

\* Python float(text) on the decimal forms d+ and d+.d (one fractional digit)
FloatParses(cs) ==
    LET body == SignedBody(StrStrip(cs))
    IN  \/ IsDigits(body)
        \/ /\ Len(body) >= 3
           /\ body[Len(body) - 1] = "."
           /\ IsDigits(SubSeq(body, 1, Len(body) - 2))
           /\ IsDigits(<<body[Len(body)]>>)

FloatParseTenths(cs) ==
    LET stripped == StrStrip(cs)
        body == SignedBody(stripped)
        mag  == IF IsDigits(body) THEN 10 * DigitsValue(body)
                ELSE 10 * DigitsValue(SubSeq(body, 1, Len(body) - 2))
                     + DigitsValue(<<body[Len(body)]>>)
    IN  IF stripped # <<>> /\ Head(stripped) = "-" THEN 0 - mag ELSE mag

\* Python str(value)
PyStr(v) ==
    CASE v.t = "str"   -> v.s
      [] v.t = "bool"  -> IF v.b THEN <<"T","r","u","e">> ELSE <<"F","a","l","s","e">>
      [] v.t = "int"   -> IntToChars(v.n)
      [] v.t = "float" -> IF v.n < 0
                          THEN <<"-">> \o NatToChars((0 - v.n) \div 10) \o <<".">>
                               \o NatToChars((0 - v.n) % 10)
                          ELSE NatToChars(v.n \div 10) \o <<".">> \o NatToChars(v.n % 10)
      [] v.t = "inf"   -> <<"i","n","f">>
      [] OTHER         -> <<"N","o","n","e">>

(***************************************************************************)
(* AgentFactory._coerce_variable_value                                     *)
(***************************************************************************)
TxtString == <<"s","t","r","i","n","g">>

TxtText == <<"t","e","x","t">>

TxtNumber == <<"n","u","m","b","e","r">>

TxtFloat == <<"f","l","o","a","t">>

TxtInteger == <<"i","n","t","e","g","e","r">>

TxtInt == <<"i","n","t">>

TxtBoolean == <<"b","o","o","l","e","a","n">>

TxtBool == <<"b","o","o","l">>

TruthyTexts == {<<"t","r","u","e">>, <<"1">>, <<"y","e","s">>}

FalsyTexts == {<<"f","a","l","s","e">>, <<"0">>, <<"n","o">>}

Coerced(v) == [err |-> "", exc |-> "", val |-> v]

\* raise ToolError(msg)
CoerceError(msg) == [err |-> msg, exc |-> "ToolError", val |-> JNull]

\* an exception of float() or int() that the except clause does not name
CoerceRaised(exc, msg) == [err |-> msg, exc |-> exc, val |-> JNull]

\* float(value) of a non-text value, in tenths
NumberOf(value) == CASE value.t = "bool"  -> IF value.b THEN 10 ELSE 0
                     [] value.t = "int"   -> 10 * value.n
                     [] OTHER             -> value.n

\* int(value) of a non-text value (truncation toward zero for floats)
IntegerOf(value) == CASE value.t = "bool"  -> IF value.b THEN 1 ELSE 0
                      [] value.t = "float" -> IF value.n < 0 THEN 0 - ((0 - value.n) \div 10)
                                              ELSE value.n \div 10
                      [] OTHER             -> value.n

CoerceBooleanAsListed(value) ==
    IF value.t = "bool" THEN Coerced(value)
    ELSE IF value.t = "str" /\ value.s \in TruthyTexts THEN Coerced(JBool(TRUE))
    ELSE IF value.t = "str" /\ value.s \in FalsyTexts THEN Coerced(JBool(FALSE))
    ELSE CoerceError("Value must be boolean (true/false).")

\* the boolean branch of _coerce_variable_value
CoerceBoolean(value) ==
    IF value.t = "bool" THEN Coerced(value)
    ELSE IF value.t = "str" /\ StrLower(StrStrip(value.s)) \in TruthyTexts
         THEN Coerced(JBool(TRUE))
    ELSE IF value.t = "str" /\ StrLower(StrStrip(value.s)) \in FalsyTexts
         THEN Coerced(JBool(FALSE))
    ELSE IF value.t \in {"int", "float"} /\ NumberOf(value) = 0
         THEN Coerced(JBool(FALSE))
    ELSE IF value.t \in {"int", "float"} /\ NumberOf(value) = 10
         THEN Coerced(JBool(TRUE))
    ELSE CoerceError("Value must be boolean (true/false).")

\* data_type is a text or <<>> for a missing data type
_coerce_variable_value(value, data_type) ==
    LET kind == StrLower(IF data_type = <<>> THEN TxtString ELSE data_type)
    IN  IF kind \in {TxtString, TxtText}
        THEN IF value.t = "null" THEN CoerceError("Value cannot be null.")
             ELSE Coerced(JStr(PyStr(value)))
        ELSE IF kind \in {TxtNumber, TxtFloat}
        THEN IF value.t = "null" \/ (value.t = "str" /\ ~FloatParses(value.s))
             THEN CoerceError("Value must be a number.")
             ELSE IF value.t = "str" THEN Coerced(JFloat(FloatParseTenths(value.s)))
             ELSE IF value.t = "inf" THEN Coerced(JInf)
             ELSE Coerced(JFloat(NumberOf(value)))
        ELSE IF kind \in {TxtInteger, TxtInt}
        THEN IF value.t = "null" \/ (value.t = "str" /\ ~IntParses(value.s))
             THEN CoerceError("Value must be an integer.")
             ELSE IF value.t = "str" THEN Coerced(JInt(IntParse(value.s)))
             ELSE IF value.t = "inf"
             THEN CoerceRaised("OverflowError", "cannot convert float infinity to integer")
             ELSE Coerced(JInt(IntegerOf(value)))
        ELSE IF kind \in {TxtBoolean, TxtBool}
        THEN CoerceBoolean(value)
        ELSE IF value.t = "null" THEN CoerceError("Value cannot be null.")
             ELSE Coerced(JStr(PyStr(value)))

(***************************************************************************)
(* Configuration graph (runtime/config.py) as the loader hands it over.    *)
(* A path is kept with the agent whose paths list holds it (owner).  The   *)
(* loader copies to_agent_id unchecked, so a target may lie outside the    *)
(* version's agents.                                                       *)
(***************************************************************************)
AgentName == [a \in AgentIds |-> IF a = "a1" THEN "Auth" ELSE "Billing"]

PathOwner == [p \in PathIds |-> IF p = "p1" THEN "a1" ELSE "a2"]

VarAccountId == [name |-> "accountId", data_type |-> TxtString]

VarConsent == [name |-> "consent", data_type |-> TxtBoolean]

\* what the authoring API may have stored for each path
TargetChoices == [p \in PathIds |-> IF p = "p1" THEN {"a1", "a2", ForeignAgentId} ELSE {"a1"}]

RequiredChoices == [p \in PathIds |->
                      IF p = "p1" THEN {<<>>, <<VarAccountId>>, <<VarConsent, VarAccountId>>}
                      ELSE {<<>>, <<VarAccountId>>}]

NoMessage == ""

TransferMessages == [p \in PathIds |-> IF p = "p1" THEN {NoMessage, "One moment"}
                                       ELSE {NoMessage}]

PathNames == [p \in PathIds |-> IF p = "p1" THEN {"To Billing"} ELSE {""}]

PathConfig(p) ==
    [id : {p}, owner : {PathOwner[p]}, target_agent_id : TargetChoices[p],
     name : PathNames[p], required_variables : RequiredChoices[p],
     transferMessage : TransferMessages[p]]

\* entry_agent_id is a free field of the dataclass: worker.entrypoint is checked also
\* against an entry id that names no agent of the graph
EntryChoices == AgentIds \cup {ForeignAgentId}

WorkflowRuntimeConfig ==
    {g \in [agents : {AgentIds}, entry_agent_id : EntryChoices,
            paths : [PathIds -> UNION {PathConfig(p) : p \in PathIds}]] :
        \A p \in PathIds : g.paths[p].id = p}

RequiredNames(path) ==
    {path.required_variables[i].name : i \in 1..Len(path.required_variables)}

\* the caller-supplied arguments of a capture tool
RawValues == {JNull, JStr(<<"A","-","1">>), JBool(FALSE)}

RawArguments == [shape : {"notdict", "novalue"}, value : {JNull}]
                \cup [shape : {"value"}, value : RawValues]

(***************************************************************************)
(* Session state: UserData, the session host and the agents' contexts.     *)
(***************************************************************************)
VARIABLES workflow_config, phase, personas, path_variables, active, entered,
          history, chat_ctx, announced, attributes, lastOp

(***************************************************************************)
(* Integration-tool state: the bound tool, the connection record and the   *)
(* vault (shared collaborators), the clock, and one invocation's position, *)
(* locals, outcome and the external interactions it has performed.         *)
(***************************************************************************)
VARIABLES tool, db_conn, vault, now, pc, loc, result, log

(***************************************************************************)
(* A second invocation on the same connection, suspended at one of its     *)
(* awaits while the first runs: parked holds its position, locals and      *)
(* outcome, running names the invocation whose state is in pc, loc, result.*)
(***************************************************************************)
VARIABLES parked, running

(***************************************************************************)
(* The process-wide WorkflowCache, the persisted workflow versions, and the*)
(* session starts (worker.entrypoint up to the loaded configuration) that  *)
(* share them; amap is the plain map over version ids the cache is         *)
(* compared with, nstarts counts the session starts.                       *)
(***************************************************************************)
VARIABLES cache, stored, starts, amap, nstarts

(***************************************************************************)
(* One run of WorkflowLoader: rows are the persisted rows it reads, ld its *)
(* position and locals, fetched the repository reads it has completed.     *)
(***************************************************************************)
VARIABLES rows, ld, fetched

(***************************************************************************)
(* Two sessions of one worker process over the same cached graph.  Python  *)
(* objects are kept by identity: dicts holds the path_variables dict       *)
(* objects, instances the agent objects (their chat context); a session    *)
(* holds references to them.  actor is the session that took the last step.*)
(***************************************************************************)
VARIABLES graph, sessions, dicts, instances, actor

(***************************************************************************)
(* One capture tool invoked repeatedly: declared is the data type of its   *)
(* variable, captured the session's variable store, capture the arguments  *)
(* and outcome of the last invocation, ncaptures the invocations so far.   *)
(***************************************************************************)
VARIABLES declared, captured, capture, ncaptures

(***************************************************************************)
(* Building the tools of one agent: agent_config is the AgentConfig handed *)
(* to the factory, functions what build_tool_functions returned for its    *)
(* tools, agent_tools the tools of the created agent, built the position.  *)
(***************************************************************************)
VARIABLES agent_config, functions, agent_tools, built

(***************************************************************************)
(* The configuration helpers of the record-lookup and message-send tools,  *)
(* applied to one input: given is the input, applied the helper that has   *)
(* been called, answer what it returned.                                   *)
(***************************************************************************)
VARIABLES given, applied, answer

(***************************************************************************)
(* One vault operation (services/vault.py): rpc is the operation, the      *)
(* number of RPC attempts made so far, the position inside _rpc and what   *)
(* the operation gave its caller.                                          *)
(***************************************************************************)
VARIABLES rpc

svars == <<workflow_config, phase, personas, path_variables, active, entered,
           history, chat_ctx, announced, attributes, lastOp>>

tvars == <<tool, db_conn, vault, now, pc, loc, result, log>>

rvars == <<parked, running>>

cvars == <<cache, stored, starts, amap, nstarts>>

lvars == <<rows, ld, fetched>>

\* the components checked on their own, outside sessions, tools and the cache
uvars == <<graph, sessions, dicts, instances, actor>>

kvars == <<declared, captured, capture, ncaptures>>

bvars == <<agent_config, functions, agent_tools, built>>

hvars == <<given, applied, answer>>

vvars == <<rpc>>

ovars == <<lvars, uvars, kvars, bvars, hvars, vvars>>

\* everything a loader step leaves alone besides the rows it reads
LoaderFrame == <<vvars, svars, tvars, rvars, cvars, hvars, uvars, kvars, bvars, rows>>

\* everything a step of one of the two sessions leaves alone besides their shared graph
PairFrame == <<vvars, svars, tvars, rvars, cvars, hvars, lvars, kvars, bvars, graph>>

\* everything an invocation of the capture tool leaves alone besides its variable
CaptureFrame == <<vvars, svars, tvars, rvars, cvars, hvars, lvars, uvars, bvars, declared>>

\* everything building an agent's tools leaves alone besides the agent's configuration
BuildFrame == <<vvars, svars, tvars, rvars, cvars, lvars, uvars, kvars, hvars, agent_config>>

\* everything a configuration helper leaves alone besides its input
HelperFrame == <<vvars, svars, tvars, rvars, cvars, lvars, uvars, kvars, bvars, given>>

\* a vault operation touches nothing but itself
VaultFrame == <<svars, tvars, rvars, cvars, lvars, uvars, kvars, bvars, hvars>>

vars == <<svars, tvars, rvars, cvars, ovars>>

EmptyVars == [n \in {} |-> JNull]

NoSummary == [path_id |-> None, path_name |-> None, variables |-> EmptyVars]

NoPayload == [stored |-> FALSE, path_id |-> None, variable |-> None]

UserMessage == [role |-> "user", tag |-> "utterance", agent |-> None, summary |-> NoSummary]

NoOp == [op |-> None, path |-> None, variable |-> None, outcome |-> None,
         message |-> "", names |-> <<>>, returned |-> None, payload |-> NoPayload,
         generated |-> FALSE]

(***************************************************************************)
(* Connection record (db/models.py IntegrationConnection) and vault.       *)
(* Secret ids and tokens are numbers; 0 stands for None.                   *)
(***************************************************************************)
NoId == 0

NoToken == 0

NoTime == 0 - 1

AccessSecretId == 1

RefreshSecretId == 2

\* ids handed out by create_secret (uuid4 names): fresh on every call
MaxSecretId == 8

SecretIds == 1..MaxSecretId

StoredAccessToken == 100

StoredRefreshToken == 200

SafetyMargin == 30

StartTime == 1000

ExpiresIn == 3600

ExpiryChoices == {NoTime, StartTime + 10, StartTime + 30, StartTime + 31, StartTime + 300}

NoConnection == [present |-> FALSE, access_token_secret_id |-> NoId,
                 refresh_token_secret_id |-> NoId, expires_at |-> NoTime,
                 profile_email |-> ""]

Connections == [present : {TRUE}, access_token_secret_id : {NoId, AccessSecretId},
                refresh_token_secret_id : {NoId, RefreshSecretId},
                expires_at : ExpiryChoices, profile_email : {"", "me@example.com"}]

\* the bound tool: which builder made it and whether a fromAddress override is configured
Tools == {[kind |-> "airtable", from_address_override |-> ""],
          [kind |-> "gmail", from_address_override |-> ""],
          [kind |-> "gmail", from_address_override |-> "ops@example.com"]}

NoLocals == [connection |-> NoConnection, access_token |-> NoToken,
             refresh_token |-> NoToken, resume |-> None, lookup |-> None,
             from_address |-> "", new_access |-> NoToken, new_expires |-> NoTime,
             new_refresh |-> NoToken, store_id |-> NoId, email |-> ""]

NoResult == [outcome |-> None, message |-> ""]

SessionInit ==
    /\ workflow_config \in WorkflowRuntimeConfig
    /\ phase = "loaded"
    /\ personas = {}
    /\ path_variables = [p \in {} |-> EmptyVars]
    /\ active = None
    /\ entered = FALSE
    /\ history = <<>>
    /\ chat_ctx = [a \in AgentIds |-> <<>>]
    /\ announced = <<>>
    /\ attributes = [agent |-> None, agent_id |-> None]
    /\ lastOp = NoOp

\* a session in which no integration tool is being invoked
ToolQuiet ==
    /\ tool = [kind |-> None, from_address_override |-> ""]
    /\ db_conn = NoConnection
    /\ vault = [i \in SecretIds |-> NoToken]
    /\ now = StartTime
    /\ pc = "idle"
    /\ loc = NoLocals
    /\ result = NoResult
    /\ log = <<>>

\* no second invocation
RaceQuiet ==
    /\ parked = [pc |-> "idle", loc |-> NoLocals, result |-> NoResult]
    /\ running = 1

(***************************************************************************)
(* Workflow versions and the cache (runtime/cache.py)                      *)
(***************************************************************************)
MaxRevision == 2

MaxStarts == 3

\* version ids (UUID values): v1 and v2 have agents, v3 has a row but no agent, v4 no row
VersionIds == {"v1", "v2", "v3", "v4"}

VersionRows == {"v1", "v2", "v3"}

\* version_id texts of the job metadata; "V1" spells v1 in upper-case hex, "zz" is no UUID
VersionTexts == {"v1", "V1", "v2", "v3", "v4", "zz"}

\* UUID(version_id_str): the UUID value, None for the ValueError
UUIDOf(text) == IF text = "V1" THEN "v1"
                ELSE IF text \in VersionIds THEN text
                ELSE None

VersionKeyShared(version_id) == "key"

\* str(version_id): the canonical text of a UUID value, the key of the cache's dict
VersionKey(version_id) == <<"uuid", version_id>>

Workflows == {"w1", "w2"}

\* repository.get_published_version: w1 has published v1, w2 has published nothing
Published == [w \in Workflows |-> IF w = "w1" THEN "v1" ELSE None]

NoGraph == [version_id |-> None, revision |-> 0, complete |-> FALSE]

EmptyCache == [k \in {} |-> NoGraph]

\* WorkflowCache.get
cache_get(c, version_id) ==
    IF VersionKey(version_id) \in DOMAIN c THEN c[VersionKey(version_id)] ELSE NoGraph

\* WorkflowCache.set
cache_set(c, version_id, config) ==
    [k \in DOMAIN c \cup {VersionKey(version_id)} |->
        IF k = VersionKey(version_id) THEN config ELSE c[k]]

cache_invalidate_all(c, version_id) == EmptyCache

\* WorkflowCache.invalidate
cache_invalidate(c, version_id) == [k \in DOMAIN c \ {VersionKey(version_id)} |-> c[k]]

\* WorkflowCache.clear
cache_clear(c) == EmptyCache

cache_miss_always(config) == TRUE

\* worker.entrypoint: "if not workflow_config" after cache.get
cache_miss(config) == config = NoGraph

NoStart == [pc |-> "idle", version_id |-> None, workflow_id |-> None, config |-> NoGraph,
            by |-> None, hit |-> FALSE]

Starters == {1, 2}

StartMetadata == [version_id : VersionTexts \cup {""}, workflow_id : Workflows]

\* no session is being started and nothing is cached
CacheQuiet ==
    /\ cache = EmptyCache
    /\ stored = [v \in VersionIds |-> IF v \in {"v1", "v2"} THEN 1 ELSE 0]
    /\ starts = [s \in Starters |-> NoStart]
    /\ amap = [v \in VersionIds |-> NoGraph]
    /\ nstarts = 0

(***************************************************************************)
(* Persisted rows of one workflow version (db/models.py) and the locals of *)
(* WorkflowLoader._build_runtime_config (runtime/loader.py)                *)
(***************************************************************************)
\* AgentNode.metadata: absent (None) or a dict; is_entry is JNull when the key is absent
NoMetadata == [present |-> FALSE, is_entry |-> JNull]

MetadataChoices == {NoMetadata}
                   \cup [present : {TRUE}, is_entry : {JNull, JBool(TRUE), JBool(FALSE)}]

AgentRowChoices == [id : AgentIds, metadata : MetadataChoices]

\* list_agents: the agent rows of the version in the order the repository returns them
AgentRowLists ==
    {<<>>} \cup {<<r>> : r \in AgentRowChoices}
           \cup {l \in {<<r1, r2>> : r1 \in AgentRowChoices, r2 \in AgentRowChoices} :
                     l[1].id # l[2].id}

PathRowIds == {"p1", "p2", "p3"}

\* AgentPath.from_agent_id
PathRowOwner == [p \in PathRowIds |-> IF p = "p2" THEN "a2" ELSE "a1"]

\* AgentPath.to_agent_id: any agent row's id, of this version or not
PathRowTargets == [p \in PathRowIds |-> IF p = "p1" THEN {"a2", ForeignAgentId}
                                         ELSE IF p = "p2" THEN {"a1"} ELSE {"a2"}]

PathRowChoices(p) == [id : {p}, to_agent_id : PathRowTargets[p]]

\* list_paths(agent_id)
PathRowLists(a) ==
    IF a = "a1"
    THEN {<<>>} \cup {<<r>> : r \in PathRowChoices("p1")}
                \cup {<<r1, r3>> : r1 \in PathRowChoices("p1"), r3 \in PathRowChoices("p3")}
    ELSE {<<>>} \cup {<<r>> : r \in PathRowChoices("p2")}

\* list_path_variables(path_id)
VariableRowLists(p) == IF p = "p1" THEN {<<>>, <<VarAccountId>>}
                       ELSE IF p = "p3" THEN {<<VarConsent>>} ELSE {<<>>}

\* list_tools(agent_id): tool row ids
ToolRowLists(a) == IF a = "a1" THEN {<<>>, <<"t1">>} ELSE {<<>>}

ListedAgents(agent_rows) == {agent_rows[i].id : i \in 1..Len(agent_rows)}

ListedPaths(path_rows) == {path_rows[i].id : i \in 1..Len(path_rows)}

NoRows == [has_workflow |-> FALSE, has_version |-> FALSE, agent_rows |-> <<>>,
           tool_rows |-> [a \in AgentIds |-> <<>>],
           path_rows |-> [a \in AgentIds |-> <<>>],
           var_rows |-> [p \in PathRowIds |-> <<>>]]

\* what the persistence collaborator may hold for the requested workflow and version
Rows ==
    {r \in [has_workflow : BOOLEAN, has_version : BOOLEAN, agent_rows : AgentRowLists,
             tool_rows : {t \in [AgentIds -> UNION {ToolRowLists(a) : a \in AgentIds}] :
                            \A a \in AgentIds : t[a] \in ToolRowLists(a)},
             path_rows : {t \in [AgentIds -> UNION {PathRowLists(a) : a \in AgentIds}] :
                            \A a \in AgentIds : t[a] \in PathRowLists(a)},
             var_rows : {t \in [PathRowIds -> UNION {VariableRowLists(q) : q \in PathRowIds}] :
                            \A q \in PathRowIds : t[q] \in VariableRowLists(q)}] :
        /\ (~r.has_workflow \/ ~r.has_version)
               => (r.agent_rows = <<>> /\ r.has_workflow # r.has_version)
        /\ \A a \in AgentIds \ ListedAgents(r.agent_rows) :
               r.tool_rows[a] = <<>> /\ r.path_rows[a] = <<>>
        /\ \A q \in PathRowIds :
               q \notin ListedPaths(r.path_rows[PathRowOwner[q]])
                  => r.var_rows[q] = CHOOSE l \in VariableRowLists(q) : TRUE}

NoAnswer == [kind |-> "pending", agents |-> <<>>, entry_agent_id |-> None]

\* load_workflow / load_workflow_version returning None
NotFound == [kind |-> "none", agents |-> <<>>, entry_agent_id |-> None]

NoLoad == [pc |-> "idle", via |-> None, i |-> 0, j |-> 0, tools |-> <<>>, paths |-> <<>>,
           agents |-> <<>>, result |-> NoAnswer]

\* no workflow is being loaded
LoaderQuiet ==
    /\ rows = NoRows
    /\ ld = NoLoad
    /\ fetched = {}

(***************************************************************************)
(* Two sessions (worker.entrypoint run twice) sharing one graph object     *)
(***************************************************************************)
SessionIds == {1, 2}

NoRef == 0

NoSession == [phase |-> "idle", path_variables |-> NoRef,
              personas |-> [a \in {} |-> NoRef], active |-> None]

\* the graphs the two sessions are started from: both agents reachable, variables to
\* capture on both paths
PairGraphs ==
    {g \in WorkflowRuntimeConfig :
        /\ g.entry_agent_id \in AgentIds
        /\ g.paths["p1"].target_agent_id = "a2"
        /\ g.paths["p1"].required_variables # <<>>
        /\ g.paths["p1"].transferMessage = NoMessage
        /\ g.paths["p2"].required_variables # <<>>}

\* no session pair is running
PairQuiet ==
    /\ graph = CHOOSE g \in PairGraphs : TRUE
    /\ sessions = [i \in SessionIds |-> NoSession]
    /\ dicts = [d \in {} |-> EmptyVars]
    /\ instances = [o \in {} |-> <<>>]
    /\ actor = NoRef

(***************************************************************************)
(* Capture-tool inputs: the declared data types and the caller's arguments *)
(***************************************************************************)
MaxCaptures == 2

\* PathVariableConfig.data_type: None (<<>> here), the documented names, a name in
\* capitals and a name the coercion does not know
DataTypes == {<<>>, TxtString, TxtText, TxtNumber, TxtFloat, TxtInteger, TxtInt, TxtBoolean,
              TxtBool, <<"B","o","o","l","e","a","n">>, <<"d","a","t","e">>}

CaptureTexts == {<<"t","r","u","e">>, <<"T","R","U","E">>, <<"y","e","s">>,
                 <<" ","y","e","s"," ">>, <<"1">>, <<"0">>, <<"n","o">>, <<"N","o">>,
                 <<"f","a","l","s","e">>, <<"m","a","y","b","e">>, <<>>, <<"1","2">>,
                 <<" ","-","7"," ">>, <<"1",".","5">>, <<"a","b","c">>}

CaptureValues == {JNull, JBool(TRUE), JBool(FALSE), JInt(0), JInt(1), JInt(2),
                  JFloat(0), JFloat(10), JFloat(15), JInf}
                 \cup {JStr(cs) : cs \in CaptureTexts}

CaptureArguments == [shape : {"notdict", "novalue"}, value : {JNull}]
                    \cup [shape : {"value"}, value : CaptureValues]

NoCapture == [args |-> [shape |-> None, value |-> JNull], outcome |-> None,
              message |-> "", payload |-> NoPayload]

\* no capture tool is being exercised
CaptureQuiet ==
    /\ declared = <<>>
    /\ captured = [p \in {} |-> EmptyVars]
    /\ capture = NoCapture
    /\ ncaptures = 0

(***************************************************************************)
(* ToolConfig (runtime/config.py): the tool type and the entries of its    *)
(* static configuration that the builders read; JNull is an absent entry   *)
(***************************************************************************)
MaxTools == 2

TxtAirtable == "airtable.find_record_by_field"

TxtGmail == "gmail.send_email"

NoEntries == [baseId |-> JNull, tableId |-> JNull, fieldName |-> JNull, field |-> JNull,
              fromAddress |-> JNull, replyTo |-> JNull, defaultBodyIsHtml |-> JNull]

GoodAirtable == [NoEntries EXCEPT !.baseId = JStr(<<"a","p","p">>),
                                  !.tableId = JStr(<<"t","b","l">>),
                                  !.fieldName = JStr(<<"E","m","a","i","l">>)]

\* configurations of a record-lookup tool: complete ones and ones with a missing, empty,
\* non-text or malformed entry
AirtableEntries ==
    {GoodAirtable,
     [GoodAirtable EXCEPT !.fieldName = JNull, !.field = JStr(<<" ","I","d"," ">>)],
     [GoodAirtable EXCEPT !.baseId = JNull],
     [GoodAirtable EXCEPT !.baseId = JStr(<<>>)],
     [GoodAirtable EXCEPT !.baseId = JInt(5)],
     [GoodAirtable EXCEPT !.tableId = JStr(<<>>)],
     [GoodAirtable EXCEPT !.tableId = JNull],
     [GoodAirtable EXCEPT !.fieldName = JNull],
     [GoodAirtable EXCEPT !.fieldName = JStr(<<" "," ">>),
                          !.field = JStr(<<"I","d">>)],
     [GoodAirtable EXCEPT !.fieldName = JStr(<<"a","{","b">>)],
     [GoodAirtable EXCEPT !.fieldName = JInt(5)]}

\* configurations of a message-send tool
GmailEntries ==
    {NoEntries,
     [NoEntries EXCEPT !.fromAddress = JStr(<<" ","o","p","s","@","x"," ">>),
                       !.defaultBodyIsHtml = JBool(TRUE)],
     [NoEntries EXCEPT !.fromAddress = JStr(<<" ">>),
                       !.defaultBodyIsHtml = JStr(<<"Y","e","s">>)],
     [NoEntries EXCEPT !.fromAddress = JStr(<<"o","p","s">>)],
     [NoEntries EXCEPT !.fromAddress = JStr(<<"@","x">>)],
     [NoEntries EXCEPT !.fromAddress = JInt(5)],
     [NoEntries EXCEPT !.replyTo = JStr(<<"x","@">>)],
     [NoEntries EXCEPT !.replyTo = JBool(TRUE)],
     [NoEntries EXCEPT !.defaultBodyIsHtml = JInt(1)],
     [NoEntries EXCEPT !.defaultBodyIsHtml = JStr(<<"m","a","y","b","e">>)]}

ToolIds == <<"t1", "t2", "t3">>

\* a ToolConfig at position k of agent_config.tools
ToolConfigs(k) ==
    [id : {ToolIds[k]}, tool_type : {TxtAirtable}, config : AirtableEntries]
    \cup [id : {ToolIds[k]}, tool_type : {TxtGmail}, config : GmailEntries]
    \cup [id : {ToolIds[k]}, tool_type : {"slack.post_message", ""}, config : {NoEntries}]

ToolLists ==
    UNION {{l \in [1..n -> UNION {ToolConfigs(k) : k \in 1..n}] :
               \A k \in 1..n : l[k] \in ToolConfigs(k)} : n \in 0..MaxTools}

\* the paths of the agent: none, or one path with two required variables
BuildPaths ==
    {<<>>,
     <<[id |-> "p1", owner |-> "a1", target_agent_id |-> "a2", name |-> "To Billing",
        required_variables |-> <<VarConsent, VarAccountId>>,
        transferMessage |-> NoMessage]>>}

NoFunctions == <<>>

\* no agent is being built
BuildQuiet ==
    /\ agent_config = [tools |-> <<>>, paths |-> <<>>]
    /\ functions = NoFunctions
    /\ agent_tools = NoFunctions
    /\ built = "idle"

(***************************************************************************)
(* Inputs of the configuration helpers: a configured maxRecords or         *)
(* maxRecipients value, a field name and a search value                    *)
(***************************************************************************)
MaxDigit == 2

\* whole-number texts around the limits 1 and 20
NumberTexts ==
    {<<"0">>, <<"5">>, <<" ","2","0"," ">>, <<"2","1">>, <<"-","2">>, <<"+","7">>}
    \cup {<<DigitChars[d + 1], DigitChars[d + 1]>> : d \in 1..MaxDigit}

LimitValues ==
    {JNull, JBool(TRUE), JBool(FALSE), JInf}
    \cup {JInt(k) : k \in {-3, 0, 1, 5, 20, 21, 25}}
    \cup {JFloat(t) : t \in {5, 55, 250}}
    \cup {JStr(cs) : cs \in NumberTexts}
    \cup {JStr(<<>>), JStr(<<" "," ">>), JStr(<<"a","b","c">>), JStr(<<"5",".","5">>)}

FieldNameTexts ==
    {<<>>, <<" "," ">>, <<"I","d">>, <<" ","P"," ","I","D"," ">>, <<"a","{","b">>,
     <<"}">>, <<"a","\"","b">>, <<"'","a">>, <<"a","\n","b">>, <<"a","\n">>,
     <<"\t","a","\r">>, <<"a","\t","b">>, <<"a","\r","b">>}

SearchValueTexts ==
    {<<>>, <<"A","C","\"","1">>, <<"\"">>, <<"\"","\"">>, <<"a","b">>,
     <<"\\","\"">>, <<"a","\"","b","\"">>, <<"{","x","}">>}

NoAnswerYet == [raises |-> FALSE, value |-> JNull]

\* no helper is being applied
HelperQuiet ==
    /\ given = [raw_value |-> JNull, field_name |-> <<>>, search_value |-> <<>>]
    /\ applied = "none"
    /\ answer = NoAnswerYet

(***************************************************************************)
(* The vault operations credential resolution performs and what one RPC    *)
(* attempt may give: response data of several shapes, an ssl.SSLError or   *)
(* any other error of the client                                           *)
(***************************************************************************)
VaultFunctions == {"vault_get_secret", "vault_create_secret", "vault_update_secret"}

MaxSecretText == 1

SecretTexts == {<<>>} \cup {[i \in 1..n |-> "k"] : n \in 1..MaxSecretText}

\* response.data: a string, a mapping with the function's key, a mapping with one other
\* key, a mapping with two other keys, a list of one string, nothing
RpcData == [shape : {"str", "keyed", "single", "pair", "list"}, text : SecretTexts]
           \cup {[shape |-> "none", text |-> <<>>]}

RpcErrors == {"SSLError", "APIError", "TimeoutError"}

VaultSecretIds == {<<"s","1">>, <<"s","2">>}

NoVaultCall == [function_name |-> "", secret_id |-> <<>>, attempt |-> 0, at |-> "idle",
                outcome |-> "", error |-> "", value |-> <<>>]

\* no vault operation is running
VaultQuiet == rpc = NoVaultCall

OthersQuiet ==
    /\ LoaderQuiet
    /\ PairQuiet
    /\ CaptureQuiet
    /\ BuildQuiet
    /\ HelperQuiet
    /\ VaultQuiet

Init == SessionInit /\ ToolQuiet /\ RaceQuiet /\ CacheQuiet /\ OthersQuiet

(***************************************************************************)
(* worker.entrypoint: instantiate every agent, pick the entry agent, start *)
(* the session.                                                            *)
(***************************************************************************)
EntryAgentFirstListed(agent_instances, config) ==
    IF "a1" \in agent_instances THEN "a1" ELSE None

\* agent_instances.get(workflow_config.entry_agent_id)
EntryAgent(agent_instances, config) ==
    IF config.entry_agent_id \in agent_instances THEN config.entry_agent_id ELSE None

agent_instances_entry_only(config) == {config.entry_agent_id} \cap config.agents

\* agent_instances: one created agent per item of workflow_config.agents
agent_instances(config) == config.agents

StartSession ==
    /\ phase = "loaded"
    /\ personas' = agent_instances(workflow_config)
    /\ IF EntryAgent(agent_instances(workflow_config), workflow_config) # None
       THEN /\ phase' = "running"
            /\ active' = EntryAgent(agent_instances(workflow_config), workflow_config)
            /\ lastOp' = [NoOp EXCEPT !.op = "start", !.outcome = "ok",
                             !.returned = EntryAgent(agent_instances(workflow_config),
                                                     workflow_config)]
       ELSE /\ phase' = "failed"
            /\ active' = active
            /\ lastOp' = [NoOp EXCEPT !.op = "start", !.outcome = "ValueError",
                                      !.message = "Entry agent not found in workflow"]
    /\ entered' = FALSE
    /\ UNCHANGED <<ovars, tvars, cvars, rvars, workflow_config, path_variables, history, chat_ctx, announced, attributes>>

(***************************************************************************)
(* The session host adds a user utterance to the session history.          *)
(***************************************************************************)
UserTurn ==
    /\ phase = "running"
    /\ entered
    /\ Len(history) < MaxHistory
    /\ history' = Append(history, UserMessage)
    /\ UNCHANGED <<ovars, tvars, cvars, rvars, workflow_config, phase, personas, path_variables, active, entered,
                   chat_ctx, announced, attributes, lastOp>>

(***************************************************************************)
(* BaseConfigurableAgent.on_enter, run by the host when an agent becomes   *)
(* active; attrFails is the outcome of participant.set_attributes.         *)
(***************************************************************************)
EnterMessage(a) ==
    [role |-> "system", tag |-> "you_are_now", agent |-> AgentName[a], summary |-> NoSummary]

\* an on_enter without the try around set_attributes
except_nothing(attrFails) == FALSE

\* except Exception around participant.set_attributes: the failure is logged
except_Exception(attrFails) == attrFails

\* generated records session.generate_reply()
OnEnter(attrFails) ==
    /\ phase = "running"
    /\ ~entered
    /\ attributes' = IF attrFails THEN attributes
                     ELSE [agent |-> AgentName[active], agent_id |-> active]
    /\ chat_ctx' = IF attrFails /\ ~except_Exception(attrFails) THEN chat_ctx
                   ELSE [chat_ctx EXCEPT ![active] = Append(history, EnterMessage(active))]
    /\ entered' = TRUE
    /\ lastOp' = IF attrFails /\ ~except_Exception(attrFails)
                 THEN [NoOp EXCEPT !.op = "on_enter", !.outcome = "Exception"]
                 ELSE [NoOp EXCEPT !.op = "on_enter", !.outcome = "ok", !.generated = TRUE]
    /\ UNCHANGED <<ovars, tvars, cvars, rvars, workflow_config, phase, personas, path_variables, active, history,
                   announced>>

(***************************************************************************)
(* BaseConfigurableAgent.get_path_variables / set_path_variable            *)
(***************************************************************************)
get_path_variables(store, path_id) ==
    IF path_id \in DOMAIN store THEN store[path_id] ELSE EmptyVars

set_path_variable_fresh_dict(store, path_id, variable, value) ==
    [q \in DOMAIN store \cup {path_id} |->
        IF q = path_id THEN [n \in {variable} |-> value] ELSE store[q]]

\* a store keyed by the name of the tool's argument instead of the variable's name
set_path_variable_as_value(store, path_id, variable, value) ==
    [q \in DOMAIN store \cup {path_id} |->
        IF q = path_id
        THEN [n \in DOMAIN get_path_variables(store, path_id) \cup {"value"} |->
                 IF n = "value" THEN value ELSE store[path_id][n]]
        ELSE store[q]]

set_path_variable_only_path(store, path_id, variable, value) ==
    [q \in {path_id} |->
        [n \in DOMAIN get_path_variables(store, path_id) \cup {variable} |->
            IF n = variable THEN value ELSE store[path_id][n]]]

set_path_variable(store, path_id, variable, value) ==
    LET old == get_path_variables(store, path_id)
        new == [n \in DOMAIN old \cup {variable} |-> IF n = variable THEN value ELSE old[n]]
    IN  [q \in DOMAIN store \cup {path_id} |-> IF q = path_id THEN new ELSE store[q]]

(***************************************************************************)
(* AgentFactory._create_variable_tool.record_variable                      *)
(***************************************************************************)
RecordVariable(p, i, args) ==
    LET path     == workflow_config.paths[p]
        variable == path.required_variables[i]
        coerced  == _coerce_variable_value(args.value, variable.data_type)
    IN  /\ phase = "running"
        /\ entered
        /\ path.owner = active
        /\ IF args.shape = "notdict"
           THEN /\ lastOp' = [NoOp EXCEPT !.op = "record", !.path = p,
                                 !.variable = variable.name, !.outcome = "ToolError",
                                 !.message = "Invalid arguments payload for variable collection."]
                /\ path_variables' = path_variables
           ELSE IF args.shape = "novalue"
           THEN /\ lastOp' = [NoOp EXCEPT !.op = "record", !.path = p,
                                 !.variable = variable.name, !.outcome = "ToolError",
                                 !.message = "Parameter 'value' is required."]
                /\ path_variables' = path_variables
           ELSE IF coerced.err # ""
           THEN /\ lastOp' = [NoOp EXCEPT !.op = "record", !.path = p,
                                 !.variable = variable.name, !.outcome = coerced.exc,
                                 !.message = coerced.err]
                /\ path_variables' = path_variables
           ELSE /\ path_variables' =
                       set_path_variable(path_variables, p, variable.name, coerced.val)
                /\ lastOp' = [NoOp EXCEPT !.op = "record", !.path = p,
                                 !.variable = variable.name, !.outcome = "ok",
                                 !.payload = [stored |-> TRUE, path_id |-> p,
                                              variable |-> variable.name]]
        /\ UNCHANGED <<ovars, tvars, cvars, rvars, workflow_config, phase, personas, active, entered, history,
                       chat_ctx, announced, attributes>>

(***************************************************************************)
(* sorted(names): insertion sort under Python's string order               *)
(***************************************************************************)
NameLess(a, b) == IndexIn(a, VarNameOrder) < IndexIn(b, VarNameOrder)

RECURSIVE InsertSorted(_, _)
InsertSorted(n, seq) ==
    IF seq = <<>> THEN <<n>>
    ELSE IF NameLess(Head(seq), n) \/ Head(seq) = n
         THEN <<Head(seq)>> \o InsertSorted(n, Tail(seq))
         ELSE <<n>> \o seq

unsorted(seq) == seq

RECURSIVE sorted(_)
sorted(seq) == IF seq = <<>> THEN <<>> ELSE InsertSorted(Head(seq), sorted(Tail(seq)))

(***************************************************************************)
(* BaseConfigurableAgent._prepare_handoff_summary: the missing names (the  *)
(* ToolError when non-empty) and otherwise the summary, NoSummary for None *)
(***************************************************************************)
_prepare_handoff_summary(store, path) ==
    LET collected     == get_path_variables(store, path.id)
        allowed_names == RequiredNames(path)
        filtered      == IF allowed_names # {}
                         THEN [n \in DOMAIN collected \cap allowed_names |-> collected[n]]
                         ELSE collected
        IsMissing(v)  == v.name \notin DOMAIN filtered
        missingVars   == SelectSeq(path.required_variables, IsMissing)
        missing       == [i \in 1..Len(missingVars) |-> missingVars[i].name]
    IN  IF missing # <<>>
        THEN [missing |-> sorted(missing), summary |-> NoSummary]
        ELSE IF DOMAIN filtered = {}
        THEN [missing |-> <<>>, summary |-> NoSummary]
        ELSE [missing |-> <<>>,
              summary |-> [path_id |-> path.id,
                           path_name |-> IF path.name # "" THEN path.name ELSE path.id,
                           variables |-> filtered]]

(***************************************************************************)
(* BaseConfigurableAgent._transfer_to_agent: the context handed to the     *)
(* target, a copy of the session history plus the handoff note             *)
(***************************************************************************)
HandoffMessage(summary) ==
    [role |-> "system", tag |-> "handoff", agent |-> None, summary |-> summary]

HandoffContextAlwaysNote(hist, handoff_summary) ==
    Append(hist, HandoffMessage(handoff_summary))

HandoffContext(hist, handoff_summary) ==
    IF handoff_summary # NoSummary /\ DOMAIN handoff_summary.variables # {}
    THEN Append(hist, HandoffMessage(handoff_summary))
    ELSE hist

(***************************************************************************)
(* AgentFactory._create_transfer_function.transfer_func                    *)
(***************************************************************************)
SayBeforeGuard(said, path, prepared) ==
    IF path.transferMessage # NoMessage THEN Append(said, path.transferMessage) ELSE said

\* transfer_func: session.say(transfer_message), reached only when the summary was prepared
Say(said, path, prepared) ==
    IF prepared.missing = <<>> /\ path.transferMessage # NoMessage
    THEN Append(said, path.transferMessage)
    ELSE said

personas_get_or_first(agents, target_agent_id) ==
    IF target_agent_id \in agents THEN target_agent_id ELSE "a1"

\* userdata.personas.get(target_agent_id)
personas_get(agents, target_agent_id) ==
    IF target_agent_id \in agents THEN target_agent_id ELSE None

after_setdefault(agents, target_agent_id) == agents \cup {target_agent_id}

\* the keys of userdata.personas after personas.get(target_agent_id): a lookup adds none
after_get(agents, target_agent_id) == agents

\* a transfer that uses up the variables of its path
after_transfer_cleared(store, path_id) ==
    [q \in DOMAIN store \ {path_id} |-> store[q]]

\* userdata.path_variables after transfer_func: the store is read, never written
after_transfer(store, path_id) == store

Transfer(p) ==
    LET path       == workflow_config.paths[p]
        prepared   == _prepare_handoff_summary(path_variables, path)
        next_agent == personas_get(personas, path.target_agent_id)
    IN  /\ phase = "running"
        /\ entered
        /\ path.owner = active
        /\ path.transferMessage # NoMessage => Len(announced) < MaxAnnounced
        /\ announced' = Say(announced, path, prepared)
        /\ personas' = IF prepared.missing # <<>> THEN personas
                        ELSE after_get(personas, path.target_agent_id)
        /\ path_variables' = IF prepared.missing # <<>> THEN path_variables
                              ELSE after_transfer(path_variables, path.id)
        /\ IF prepared.missing # <<>>
           THEN /\ lastOp' = [NoOp EXCEPT !.op = "transfer", !.path = p,
                                 !.outcome = "ToolError",
                                 !.message = "Collect required variables before transferring: ",
                                 !.names = prepared.missing]
                /\ UNCHANGED <<chat_ctx, active, entered>>
           ELSE IF next_agent = None
           THEN /\ lastOp' = [NoOp EXCEPT !.op = "transfer", !.path = p,
                                 !.outcome = "ValueError",
                                 !.message = "Agent not found"]
                /\ UNCHANGED <<chat_ctx, active, entered>>
           ELSE /\ chat_ctx' = [a \in AgentIds |->
                                  IF a = next_agent
                                  THEN HandoffContext(history, prepared.summary)
                                  ELSE chat_ctx[a]]
                /\ active' = next_agent
                /\ entered' = FALSE
                /\ lastOp' = [NoOp EXCEPT !.op = "transfer", !.path = p,
                                 !.outcome = "ok", !.returned = next_agent]
        /\ UNCHANGED <<ovars, tvars, cvars, rvars, workflow_config, phase, history,
                       attributes>>

(***************************************************************************)
(* tool_registry.py: caller-argument validation                            *)
(***************************************************************************)
RECURSIVE SplitCommas(_)
SplitCommas(cs) ==
    IF ~\E i \in 1..Len(cs) : cs[i] = ","
    THEN <<cs>>
    ELSE LET k == CHOOSE i \in 1..Len(cs) : cs[i] = "," /\ \A j \in 1..(i - 1) : cs[j] # ","
         IN  <<SubSeq(cs, 1, k - 1)>> \o SplitCommas(SubSeq(cs, k + 1, Len(cs)))

\* getaddresses on a comma-separated list of bare addresses
AddressesOf(cs) ==
    LET parts == SplitCommas(cs)
        stripped == [i \in 1..Len(parts) |-> StrStrip(parts[i])]
        NonEmpty(a) == a # <<>>
    IN  SelectSeq(stripped, NonEmpty)

ValidAddress(a) == /\ \E i \in 1..Len(a) : a[i] = "@"
                   /\ Head(a) # "@"
                   /\ a[Len(a)] # "@"

\* the ToolError message of _get_string_argument, "" when it returns
StringArgumentError(value, required) ==
    IF value.t = "null" THEN (IF required THEN "Parameter is required." ELSE "")
    ELSE IF value.t # "str" THEN "Parameter must be provided as a string."
    ELSE IF required /\ StrStrip(value.s) = <<>> THEN "Parameter cannot be empty."
    ELSE ""

\* what _get_string_argument returns: the stripped text, <<>> for None
_get_string_argument(value) == IF value.t = "str" THEN StrStrip(value.s) ELSE <<>>

BooleanArgumentError(value) ==
    IF value.t = "null" \/ value.t = "bool" THEN ""
    ELSE IF value.t = "str"
            /\ StrLower(StrStrip(value.s)) \in TruthyTexts \cup FalsyTexts THEN ""
    ELSE "Parameter must be a boolean value."

\* the ToolError message of _parse_email_addresses on an already stripped text
EmailAddressesError(text, required) ==
    IF text = <<>> THEN (IF required THEN "Parameter is required." ELSE "")
    ELSE IF AddressesOf(text) = <<>>
    THEN (IF required THEN "Parameter must include at least one email address." ELSE "")
    ELSE IF \E i \in 1..Len(AddressesOf(text)) : ~ValidAddress(AddressesOf(text)[i])
    THEN "Parameter contains an invalid email address."
    ELSE ""

_parse_email_addresses(text) == IF text = <<>> THEN <<>> ELSE AddressesOf(text)

RECURSIVE FirstError(_)
FirstError(errors) == IF errors = <<>> THEN ""
                      ELSE IF Head(errors) # "" THEN Head(errors)
                      ELSE FirstError(Tail(errors))

\* _resolve_max_recipients with no maxRecipients configured
DefaultMaxRecipients == 5

GmailArgumentsUnchecked(args) == ""

GmailArgumentError(args) ==
    LET to_value  == _get_string_argument(args.to)
        cc_value  == _get_string_argument(args.cc)
        bcc_value == _get_string_argument(args.bcc)
        total == Len(_parse_email_addresses(to_value)) + Len(_parse_email_addresses(cc_value))
                 + Len(_parse_email_addresses(bcc_value))
        strings == FirstError(<<StringArgumentError(args.to, TRUE),
                                StringArgumentError(args.subject, TRUE),
                                StringArgumentError(args.body, TRUE),
                                StringArgumentError(args.cc, FALSE),
                                StringArgumentError(args.bcc, FALSE),
                                BooleanArgumentError(args.bodyIsHtml)>>)
    IN  IF ~args.is_dict THEN "Invalid arguments payload."
        ELSE IF strings # "" THEN strings
        ELSE FirstError(<<EmailAddressesError(to_value, TRUE),
                          EmailAddressesError(cc_value, FALSE),
                          EmailAddressesError(bcc_value, FALSE),
                          IF total = 0
                          THEN "At least one recipient email address must be provided."
                          ELSE "",
                          IF total > DefaultMaxRecipients
                          THEN "Too many recipients provided."
                          ELSE "">>)

AirtableArgumentError(args) ==
    IF ~args.is_dict THEN "Invalid arguments payload."
    ELSE IF args.searchValue.t # "str" \/ StrStrip(args.searchValue.s) = <<>>
    THEN "Parameter is required."
    ELSE ""

TxtAddress == <<"a","@","b">>

TxtBody == <<"h","i">>

GoodGmailArgs == [is_dict |-> TRUE, to |-> JStr(TxtAddress), subject |-> JStr(TxtBody),
                  body |-> JStr(TxtBody), cc |-> JNull, bcc |-> JNull, bodyIsHtml |-> JNull]

GmailArguments ==
    {GoodGmailArgs,
     [GoodGmailArgs EXCEPT !.is_dict = FALSE],
     [GoodGmailArgs EXCEPT !.to = JNull],
     [GoodGmailArgs EXCEPT !.to = JStr(<<"a","@">>)],
     [GoodGmailArgs EXCEPT !.body = JStr(<<" ">>)],
     [GoodGmailArgs EXCEPT !.cc = JStr(<<"c","@","d",","," ","e","@","f">>),
                           !.bodyIsHtml = JStr(<<"Y","E","S">>)],
     [GoodGmailArgs EXCEPT !.bodyIsHtml = JInt(1)],
     [GoodGmailArgs EXCEPT !.subject = JInt(7)],
     [GoodGmailArgs EXCEPT !.to = JStr(<<" ", ",", " ">>)],
     [GoodGmailArgs EXCEPT !.cc = JStr(<<"c","@","d",",","e","@","f",",","g","@","h">>),
                           !.bcc = JStr(<<"i","@","j",",","k","@","l">>)]}

AirtableArguments ==
    {[is_dict |-> TRUE, searchValue |-> JStr(<<" ","A","C","1">>)],
     [is_dict |-> FALSE, searchValue |-> JNull],
     [is_dict |-> TRUE, searchValue |-> JStr(<<" ">>)],
     [is_dict |-> TRUE, searchValue |-> JInt(7)]}

(***************************************************************************)
(* One integration-tool invocation (airtable_find_record,                  *)
(* gmail_send_email_tool), cut at its awaits.  The operators below are the *)
(* code that runs between two awaits: each gives the next position, the    *)
(* locals and the outcome when the invocation ends there.                  *)
(***************************************************************************)
Go(position, locals) == [pc |-> position, loc |-> locals, result |-> NoResult]

Raise(exception, msg, locals) ==
    [pc |-> "done", loc |-> locals, result |-> [outcome |-> exception, message |-> msg]]

Return(locals) ==
    [pc |-> "done", loc |-> locals, result |-> [outcome |-> "ok", message |-> ""]]

Logged(op, info) == Append(log, [op |-> op, info |-> info, msg |-> ""])

Count(op) == Cardinality({i \in 1..Len(log) : log[i].op = op})

\* gmail_send_email_tool after a sender-profile lookup returned email ("" for None)
AfterProfile(locals, email, lookup) ==
    IF lookup = "retry"
    THEN Go("retry_call", IF email # "" THEN [locals EXCEPT !.from_address = email] ELSE locals)
    ELSE IF email = ""
    THEN Raise("ToolError", "Unable to determine a Gmail sender address.", locals)
    ELSE Go("call", [locals EXCEPT !.from_address = email])

\* _resolve_gmail_profile_email up to its fetch_userinfo await
StartProfile(locals, lookup) ==
    IF locals.connection.profile_email # ""
    THEN AfterProfile(locals, locals.connection.profile_email, lookup)
    ELSE Go("userinfo", [locals EXCEPT !.lookup = lookup])

\* the tool body after _resolve_*_access_token returned
AfterResolve(locals) ==
    IF tool.kind = "gmail" /\ tool.from_address_override = ""
    THEN StartProfile(locals, "first")
    ELSE Go("call", [locals EXCEPT !.from_address = tool.from_address_override])

RefreshDoneKeepsOldToken(locals) ==
    IF locals.resume = "resolve" THEN AfterResolve(locals)
    ELSE IF locals.resume = "profile_forced" THEN StartProfile(locals, "second")
    ELSE IF tool.kind = "gmail" /\ tool.from_address_override = ""
    THEN StartProfile(locals, "retry")
    ELSE Go("retry_call", locals)

\* the caller of _refresh_*_token once it has returned the new access token
RefreshDone(locals) ==
    LET l == [locals EXCEPT !.access_token = locals.new_access]
    IN  IF l.resume = "resolve" THEN AfterResolve(l)
        ELSE IF l.resume = "profile_forced" THEN StartProfile(l, "second")
        ELSE IF tool.kind = "gmail" /\ tool.from_address_override = ""
        THEN StartProfile(l, "retry")
        ELSE Go("retry_call", l)

should_refresh_always(locals) == TRUE

should_refresh(locals) ==
    \/ /\ locals.connection.expires_at # NoTime
       /\ locals.connection.expires_at <= now + SafetyMargin
    \/ locals.access_token = NoToken

DecideWithoutToken(locals) ==
    IF should_refresh(locals)
    THEN Go("refresh_call", [locals EXCEPT !.resume = "resolve"])
    ELSE AfterResolve(locals)

\* _resolve_*_access_token once both secrets are loaded
Decide(locals) ==
    IF should_refresh(locals)
    THEN IF locals.refresh_token = NoToken
         THEN Raise("ToolError", "Refresh token is missing; reconnect the integration.", locals)
         ELSE Go("refresh_call", [locals EXCEPT !.resume = "resolve"])
    ELSE AfterResolve(locals)

\* _load_secret returns None without a vault call when the record has no secret id
StartLoadRefresh(locals) ==
    IF locals.connection.refresh_token_secret_id = NoId
    THEN Decide([locals EXCEPT !.refresh_token = NoToken])
    ELSE Go("load_refresh", locals)

StartResolve(locals) ==
    IF locals.connection.access_token_secret_id = NoId
    THEN StartLoadRefresh([locals EXCEPT !.access_token = NoToken])
    ELSE Go("load_access", locals)

\* the forced refresh after a failed sender-profile lookup or an authorization failure
StartForced(locals, resume) ==
    IF locals.connection.refresh_token_secret_id = NoId
    THEN Raise("ToolError", "Credentials expired; reconnect the integration.", locals)
    ELSE Go("forced_load", [locals EXCEPT !.resume = resume])

Become(cfg) == /\ pc' = cfg.pc
               /\ loc' = cfg.loc
               /\ result' = cfg.result

Invoke(args) ==
    /\ pc = "idle"
    /\ tool.kind # None
    /\ args \in (IF tool.kind = "gmail" THEN GmailArguments ELSE AirtableArguments)
    /\ LET error == IF tool.kind = "gmail" THEN GmailArgumentError(args)
                    ELSE AirtableArgumentError(args)
       IN  Become(IF error # "" THEN Raise("ToolError", error, loc)
                  ELSE Go("get_connection", loc))
    /\ UNCHANGED <<ovars, svars, cvars, rvars, tool, db_conn, vault, now, log>>

\* f"{name} is not connected for this organization." with the friendly name each tool passes
NotConnectedMessage(kind) ==
    IF kind = "gmail" THEN "Gmail is not connected for this organization."
    ELSE "Airtable is not connected for this organization."

connection_missing_never(connection) == FALSE

\* _get_connection: "if not connection"
connection_missing(connection) == ~connection.present

\* _get_connection: repo.get_connection answers with the record, with nothing, or fails
GetConnection(fails) ==
    /\ pc = "get_connection"
    /\ log' = Logged("get_connection", "")
    /\ Become(IF fails THEN Raise("APIError", "connection lookup failed", loc)
              ELSE IF connection_missing(db_conn)
              THEN Raise("ToolError", NotConnectedMessage(tool.kind), loc)
              ELSE StartResolve([loc EXCEPT !.connection = db_conn]))
    /\ UNCHANGED <<ovars, svars, cvars, rvars, tool, db_conn, vault, now>>

\* _load_secret: get_secret answers with a non-empty value or raises VaultError
LoadSecret(fails) ==
    /\ pc \in {"load_access", "load_refresh", "forced_load"}
    /\ log' = Logged("get_secret", pc)
    /\ LET id == IF pc = "load_access" THEN loc.connection.access_token_secret_id
                 ELSE loc.connection.refresh_token_secret_id
           value == vault[id]
       IN  Become(IF fails \/ value = NoToken
                  THEN Raise("ToolError", "Unable to load Airtable credentials.", loc)
                  ELSE IF pc = "load_access"
                  THEN StartLoadRefresh([loc EXCEPT !.access_token = value])
                  ELSE IF pc = "load_refresh"
                  THEN Decide([loc EXCEPT !.refresh_token = value])
                  ELSE Go("refresh_call", [loc EXCEPT !.refresh_token = value]))
    /\ UNCHANGED <<ovars, svars, cvars, rvars, tool, db_conn, vault, now>>

\* what the provider's token endpoint may answer
RefreshResponses ==
    [kind : {"error", "notoken"}, expires_in : {NoTime}, rotated : {FALSE}]
    \cup [kind : {"ok"}, expires_in : {NoTime, ExpiresIn}, rotated : BOOLEAN]

\* _refresh_airtable_token / _refresh_gmail_token up to _store_access_token
RefreshCall(resp) ==
    /\ pc = "refresh_call"
    /\ log' = Logged("refresh", loc.resume)
    /\ Become(IF resp.kind = "error"
              THEN Raise("ToolError", "Failed to refresh access token.", loc)
              ELSE IF resp.kind = "notoken"
              THEN Raise("ToolError", "Provider did not return an access token.", loc)
              ELSE Go("store_access_vault",
                      [loc EXCEPT !.new_access = StoredAccessToken + Count("refresh") + 1,
                                  !.new_expires = IF resp.expires_in = NoTime THEN NoTime
                                                  ELSE now + resp.expires_in,
                                  !.new_refresh = IF resp.rotated
                                                  THEN StoredRefreshToken + Count("refresh") + 1
                                                  ELSE NoToken]))
    /\ UNCHANGED <<ovars, svars, cvars, rvars, tool, db_conn, vault, now>>

\* _store_access_token / _store_refresh_token: the vault write (update_secret when the
\* connection read at the start names a secret, create_secret otherwise)
StoreSecret(fails) ==
    /\ pc \in {"store_access_vault", "store_refresh_vault"}
    /\ LET forAccess == pc = "store_access_vault"
           known == IF forAccess THEN loc.connection.access_token_secret_id
                    ELSE loc.connection.refresh_token_secret_id
           id    == IF known # NoId THEN known ELSE RefreshSecretId + Count("create_secret") + 1
           value == IF forAccess THEN loc.new_access ELSE loc.new_refresh
       IN  /\ log' = Logged(IF known # NoId THEN "update_secret" ELSE "create_secret", pc)
           /\ vault' = IF fails THEN vault ELSE [vault EXCEPT ![id] = value]
           /\ Become(IF fails
                     THEN IF forAccess
                          THEN Raise("ToolError",
                                     IF known # NoId THEN "Unable to update Airtable credentials."
                                     ELSE "Unable to persist Airtable credentials.", loc)
                          ELSE RefreshDone(loc)
                     ELSE Go(IF forAccess THEN "store_access_db" ELSE "store_refresh_db",
                             [loc EXCEPT !.store_id = id]))
    /\ UNCHANGED <<ovars, svars, cvars, rvars, tool, db_conn, now>>

\* repo.upsert_connection: partial update of the connection record
UpsertConnection(fails) ==
    /\ pc \in {"store_access_db", "store_refresh_db", "profile_upsert"}
    /\ log' = Logged("upsert_connection", pc)
    /\ db_conn' =
         IF fails THEN db_conn
         ELSE IF pc = "store_access_db"
         THEN [db_conn EXCEPT !.present = TRUE,
                              !.access_token_secret_id = loc.store_id,
                              !.expires_at = IF loc.new_expires # NoTime
                                             THEN loc.new_expires ELSE @]
         ELSE IF pc = "store_refresh_db"
         THEN [db_conn EXCEPT !.present = TRUE, !.refresh_token_secret_id = loc.store_id]
         ELSE [db_conn EXCEPT !.present = TRUE, !.profile_email = loc.email]
    /\ Become(IF pc = "profile_upsert" THEN AfterProfile(loc, loc.email, loc.lookup)
              ELSE IF fails THEN Raise("APIError", "connection update failed", loc)
              ELSE IF pc = "store_access_db" /\ loc.new_refresh # NoToken
              THEN Go("store_refresh_vault", loc)
              ELSE RefreshDone(loc))
    /\ UNCHANGED <<ovars, svars, cvars, rvars, tool, vault, now>>

\* _resolve_gmail_profile_email: fetch_userinfo and the three places that call it
FetchUserinfo(outcome) ==
    /\ pc = "userinfo"
    /\ log' = Logged("userinfo", loc.lookup)
    /\ Become(IF outcome = "email"
              THEN Go("profile_upsert", [loc EXCEPT !.email = "me@example.com"])
              ELSE IF outcome = "noemail"
              THEN AfterProfile(loc, "", loc.lookup)
              ELSE IF loc.lookup = "first" THEN StartForced(loc, "profile_forced")
              ELSE IF loc.lookup = "second"
              THEN Raise("GmailOAuthError", "Failed to fetch Gmail user info", loc)
              ELSE Go("retry_call", loc))
    /\ UNCHANGED <<ovars, svars, cvars, rvars, tool, db_conn, vault, now>>

CallStatuses == {"200", "401", "403", "500", "timeout"}

\* error.message of a provider response that is neither 200 nor 401/403; the provider is
\* taken never to send the word _call_airtable reserves for 401/403 ("unauthorized")
ProviderMessages == {"Request failed.", "Not found."}

\* the ToolError text _call_airtable raises for a response that is not 200
AirtableErrorText(status, message) ==
    IF status \in {"401", "403"} THEN "unauthorized" ELSE message

IsAuthFailureAnyError(status, message) == TRUE

\* the test that sends the invocation into the forced refresh
IsAuthFailure(status, message) ==
    IF tool.kind = "airtable" THEN AirtableErrorText(status, message) = "unauthorized"
    ELSE status \in {"401", "403"}

\* _call_airtable / gmail_send_email, first call and the retry after a forced refresh
IntegrationCall(status, message) ==
    /\ pc \in {"call", "retry_call"}
    /\ status # "500" => message = "Request failed."
    /\ log' = Append(log, [op |-> "call", info |-> status, msg |-> message])
    /\ Become(IF status = "200" THEN Return(loc)
              ELSE IF status = "timeout" THEN Raise("TimeoutError", "", loc)
              ELSE IF pc = "call"
              THEN IF IsAuthFailure(status, message) THEN StartForced(loc, "call_forced")
                   ELSE Raise("ToolError", message, loc)
              ELSE IF tool.kind = "airtable"
              THEN Raise("ToolError", AirtableErrorText(status, message), loc)
              ELSE Raise("GmailError", message, loc))
    /\ UNCHANGED <<ovars, svars, cvars, rvars, tool, db_conn, vault, now>>

\* a session in which nothing happens while the tool is invoked
SessionQuiet ==
    /\ workflow_config \in {g \in WorkflowRuntimeConfig :
          /\ g.entry_agent_id = "a1"
          /\ \A p \in PathIds : /\ g.paths[p].required_variables = <<>>
                                /\ g.paths[p].transferMessage = NoMessage
                                /\ g.paths[p].target_agent_id = "a1"}
    /\ phase = "loaded"
    /\ personas = {}
    /\ path_variables = [p \in {} |-> EmptyVars]
    /\ active = None
    /\ entered = FALSE
    /\ history = <<>>
    /\ chat_ctx = [a \in AgentIds |-> <<>>]
    /\ announced = <<>>
    /\ attributes = [agent |-> None, agent_id |-> None]
    /\ lastOp = NoOp

ToolInit ==
    /\ SessionQuiet
    /\ RaceQuiet
    /\ CacheQuiet
    /\ OthersQuiet
    /\ tool \in Tools
    /\ db_conn \in Connections \cup {NoConnection}
    /\ vault = [i \in SecretIds |-> IF i = AccessSecretId THEN StoredAccessToken
                                    ELSE IF i = RefreshSecretId THEN StoredRefreshToken
                                    ELSE NoToken]
    /\ now = StartTime
    /\ pc = "idle"
    /\ loc = NoLocals
    /\ result = NoResult
    /\ log = <<>>

ToolNext ==
    \/ \E args \in GmailArguments \cup AirtableArguments : Invoke(args)
    \/ \E fails \in BOOLEAN : GetConnection(fails)
    \/ \E fails \in BOOLEAN : LoadSecret(fails)
    \/ \E resp \in RefreshResponses : RefreshCall(resp)
    \/ \E fails \in BOOLEAN : StoreSecret(fails)
    \/ \E fails \in BOOLEAN : UpsertConnection(fails)
    \/ \E outcome \in {"email", "noemail", "error"} : FetchUserinfo(outcome)
    \/ \E status \in CallStatuses : \E message \in ProviderMessages :
           IntegrationCall(status, message)

ToolSpec == ToolInit /\ [][ToolNext]_vars

(***************************************************************************)
(* Two invocations resolving the access token of the same connection,      *)
(* interleaved at their awaits (asyncio: one runs until it awaits, then the*)
(* other may run).  The collaborators answer; no failure is injected.      *)
(***************************************************************************)
\* the resolver has returned to the tool body
Returned(position) == position \in {"call", "userinfo"}

\* the running invocation is suspended at an await and the other one goes on
Switch ==
    /\ ~Returned(parked.pc)
    /\ pc' = parked.pc
    /\ loc' = parked.loc
    /\ result' = parked.result
    /\ parked' = [pc |-> pc, loc |-> loc, result |-> result]
    /\ running' = 3 - running
    /\ UNCHANGED <<ovars, svars, cvars, tool, db_conn, vault, now, log>>

\* connection records whose access token must be refreshed and can be
StaleConnections ==
    {c \in Connections : /\ c.refresh_token_secret_id # NoId
                         /\ c.profile_email = ""
                         /\ \/ c.access_token_secret_id = NoId
                            \/ c.expires_at \in {StartTime + 10, StartTime + 30}}

RaceInit ==
    /\ SessionQuiet
    /\ CacheQuiet
    /\ OthersQuiet
    /\ tool \in {t \in Tools : t.from_address_override = ""}
    /\ db_conn \in StaleConnections
    /\ vault = [i \in SecretIds |-> IF i = AccessSecretId THEN StoredAccessToken
                                    ELSE IF i = RefreshSecretId THEN StoredRefreshToken
                                    ELSE NoToken]
    /\ now = StartTime
    /\ pc = "get_connection"
    /\ loc = NoLocals
    /\ result = NoResult
    /\ log = <<>>
    /\ parked = [pc |-> "get_connection", loc |-> NoLocals, result |-> NoResult]
    /\ running = 1

\* the token endpoint answers each of the two refreshes with a token, declaring no
\* lifetime, one lifetime or another
RaceResponses ==
    [kind : {"ok"}, expires_in : {NoTime, ExpiresIn, ExpiresIn + ExpiresIn},
     rotated : BOOLEAN]

RaceNext ==
    \/ /\ ~Returned(pc)
       /\ \/ GetConnection(FALSE)
          \/ LoadSecret(FALSE)
          \/ \E resp \in RaceResponses : RefreshCall(resp)
          \/ StoreSecret(FALSE)
          \/ UpsertConnection(FALSE)
    \/ Switch

RaceSpec == RaceInit /\ [][RaceNext]_vars

(***************************************************************************)
(* Session starts sharing the cache: worker.entrypoint from the job        *)
(* metadata to the loaded configuration, cut at the loader's awaits.       *)
(***************************************************************************)
\* the graph _build_runtime_config assembles from the rows of a version
LoadedGraph(version_id) ==
    [version_id |-> version_id, revision |-> stored[version_id], complete |-> TRUE]

\* entrypoint up to its first await: parse the metadata, look the version up in the cache
BeginStart(s, meta) ==
    LET version_id == UUIDOf(meta.version_id)
        cached     == cache_get(cache, version_id)
        fresh      == [NoStart EXCEPT !.workflow_id = meta.workflow_id]
    IN  /\ starts[s].pc \in {"idle", "ready", "failed"}
        /\ nstarts < MaxStarts
        /\ nstarts' = nstarts + 1
        /\ starts' = [starts EXCEPT ![s] =
              IF meta.version_id # "" /\ version_id = None
              THEN [fresh EXCEPT !.pc = "failed", !.by = "version"]
              ELSE IF meta.version_id # ""
              THEN IF cache_miss(cached)
                   THEN [fresh EXCEPT !.pc = "loading", !.by = "version",
                                      !.version_id = version_id]
                   ELSE [fresh EXCEPT !.pc = "ready", !.by = "version",
                                      !.version_id = version_id, !.config = cached,
                                      !.hit = TRUE]
              ELSE [fresh EXCEPT !.pc = "loading_published", !.by = "workflow"]]
        /\ UNCHANGED <<ovars, svars, tvars, rvars, cache, stored, amap>>

\* load_workflow_version: repository.get_version answers with the row or with nothing
LoadVersionRow(s) ==
    /\ starts[s].pc = "loading"
    /\ starts' = [starts EXCEPT ![s].pc =
                    IF starts[s].version_id \in VersionRows THEN "building" ELSE "failed"]
    /\ UNCHANGED <<ovars, svars, tvars, rvars, cache, stored, amap, nstarts>>

\* load_workflow: repository.get_published_version answers with the row or with nothing
LoadPublished(s) ==
    /\ starts[s].pc = "loading_published"
    /\ starts' = [starts EXCEPT ![s] =
                    IF Published[starts[s].workflow_id] = None
                    THEN [@ EXCEPT !.pc = "failed"]
                    ELSE [@ EXCEPT !.pc = "building",
                                   !.version_id = Published[starts[s].workflow_id]]]
    /\ UNCHANGED <<ovars, svars, tvars, rvars, cache, stored, amap, nstarts>>

\* _build_runtime_config returns (None for a version without agents), and the entrypoint
\* goes on without an await: cache.set on a graph, ValueError on None
Build(s) ==
    LET version_id == starts[s].version_id
        config     == LoadedGraph(version_id)
    IN  /\ starts[s].pc = "building"
        /\ IF stored[version_id] = 0
           THEN /\ starts' = [starts EXCEPT ![s].pc = "failed"]
                /\ UNCHANGED <<cache, amap>>
           ELSE /\ starts' = [starts EXCEPT ![s].pc = "ready", ![s].config = config]
                /\ cache' = cache_set(cache, version_id, config)
                /\ amap' = [amap EXCEPT ![version_id] = config]
        /\ UNCHANGED <<ovars, svars, tvars, rvars, stored, nstarts>>

\* the authoring API changes the agents of a version
EditVersion(v) ==
    /\ stored[v] >= 1
    /\ stored[v] < MaxRevision
    /\ stored' = [stored EXCEPT ![v] = @ + 1]
    /\ UNCHANGED <<ovars, svars, tvars, rvars, cache, starts, amap, nstarts>>

Invalidate(v) ==
    /\ cache' = cache_invalidate(cache, v)
    /\ amap' = [amap EXCEPT ![v] = NoGraph]
    /\ UNCHANGED <<ovars, svars, tvars, rvars, stored, starts, nstarts>>

Clear ==
    /\ cache' = cache_clear(cache)
    /\ amap' = [v \in VersionIds |-> NoGraph]
    /\ UNCHANGED <<ovars, svars, tvars, rvars, stored, starts, nstarts>>

CacheInit == SessionQuiet /\ ToolQuiet /\ RaceQuiet /\ CacheQuiet /\ OthersQuiet

CacheNext ==
    \/ \E s \in Starters : \E meta \in StartMetadata : BeginStart(s, meta)
    \/ \E s \in Starters : LoadVersionRow(s)
    \/ \E s \in Starters : LoadPublished(s)
    \/ \E s \in Starters : Build(s)
    \/ \E v \in VersionIds : EditVersion(v)
    \/ \E v \in VersionIds : Invalidate(v)
    \/ Clear

CacheSpec == CacheInit /\ [][CacheNext]_vars

Next ==
    \/ StartSession
    \/ UserTurn
    \/ \E attrFails \in BOOLEAN : OnEnter(attrFails)
    \/ \E p \in PathIds : \E i \in 1..Len(workflow_config.paths[p].required_variables) :
           \E args \in RawArguments : RecordVariable(p, i, args)
    \/ \E p \in PathIds : Transfer(p)

Spec == Init /\ [][Next]_vars

(***************************************************************************)
(* Properties of the session (checked under Spec)                          *)
(***************************************************************************)
Captured(store, p) == DOMAIN get_path_variables(store, p)

GuardSatisfied(store, p) == RequiredNames(workflow_config.paths[p]) \subseteq Captured(store, p)

TransferOk(op, p) ==
    /\ op.op = "transfer"
    /\ op.path = p
    /\ op.outcome = "ok"
    /\ op.returned = workflow_config.paths[p].target_agent_id

\* C1: for a path with required variables, the transfer tool succeeds and returns the
\* target agent exactly when every required variable is in the store at the call, and
\* fails with a ToolError when one is absent.  (Refuted by a path whose target is outside
\* the agent map: all variables captured, yet the transfer raises ValueError.)
C1_TransferIffAllCaptured ==
    [][\A p \in PathIds :
          (Transfer(p) /\ workflow_config.paths[p].required_variables # <<>>)
          => /\ TransferOk(lastOp', p) <=> GuardSatisfied(path_variables, p)
             /\ ~GuardSatisfied(path_variables, p) => lastOp'.outcome = "ToolError"]_vars

\* C2: a transfer that fails on missing variables changes neither the active agent, the
\* variable store, the announcements, any agent's context nor the session history.
C2_FailedTransferHasNoEffect ==
    [][\A p \in PathIds :
          (Transfer(p) /\ ~GuardSatisfied(path_variables, p))
          => /\ lastOp'.outcome = "ToolError"
             /\ lastOp'.returned = None
             /\ active' = active
             /\ path_variables' = path_variables
             /\ announced' = announced
             /\ chat_ctx' = chat_ctx
             /\ history' = history
             /\ entered' = entered]_vars

C2_Witness ==
    /\ lastOp.op = "transfer"
    /\ lastOp.outcome = "ToolError"
    /\ workflow_config.paths[lastOp.path].transferMessage # NoMessage
    /\ lastOp.path \in DOMAIN path_variables

\* C3: the active agent is first the graph's entry agent and afterwards changes only by a
\* successful transfer along an outgoing path of the active agent, to that path's target;
\* every successful transfer makes its target the active agent.
C3_ActiveChangesOnlyByTransfer ==
    [][/\ active' # active
          => \/ /\ active = None
                /\ phase = "loaded"
                /\ active' = workflow_config.entry_agent_id
             \/ /\ lastOp'.op = "transfer"
                /\ lastOp'.outcome = "ok"
                /\ workflow_config.paths[lastOp'.path].owner = active
                /\ active' = workflow_config.paths[lastOp'.path].target_agent_id
       /\ \A p \in PathIds :
            (Transfer(p) /\ lastOp'.outcome = "ok")
            => active' = workflow_config.paths[p].target_agent_id]_vars

C3_Witness ==
    /\ lastOp.op = "transfer"
    /\ lastOp.outcome = "ok"
    /\ active # workflow_config.entry_agent_id
    /\ active = workflow_config.paths[lastOp.path].target_agent_id

IsSortedNames(seq) == \A i \in 1..(Len(seq) - 1) : NameLess(seq[i], seq[i + 1])

\* C7: the error of a transfer that fails its precondition names exactly the required
\* variables not yet captured, each once, in sorted order.
C7_ErrorNamesMissingSorted ==
    (lastOp.op = "transfer" /\ lastOp.outcome = "ToolError")
    => /\ {lastOp.names[i] : i \in 1..Len(lastOp.names)}
            = RequiredNames(workflow_config.paths[lastOp.path])
                \ Captured(path_variables, lastOp.path)
       /\ IsSortedNames(lastOp.names)

C7_Witness ==
    /\ lastOp.op = "transfer"
    /\ lastOp.outcome = "ToolError"
    /\ Len(lastOp.names) = 2

C7_WitnessPartlyCaptured ==
    /\ lastOp.op = "transfer"
    /\ lastOp.outcome = "ToolError"
    /\ Len(lastOp.names) = 1
    /\ Captured(path_variables, lastOp.path) # {}

\* C8: a successful capture for (p, v) stores the coerced value under p.v, returns a
\* payload naming p and v, and leaves the active agent and every other stored entry alone.
C8_CaptureStoresOnlyItsVariable ==
    [][\A p \in PathIds : \A i \in 1..Len(workflow_config.paths[p].required_variables) :
         \A args \in RawArguments :
           (RecordVariable(p, i, args) /\ lastOp'.outcome = "ok")
           => LET v == workflow_config.paths[p].required_variables[i]
              IN  /\ args.shape = "value"
                  /\ p \in DOMAIN path_variables'
                  /\ v.name \in DOMAIN path_variables'[p]
                  /\ path_variables'[p][v.name]
                       = _coerce_variable_value(args.value, v.data_type).val
                  /\ lastOp'.payload = [stored |-> TRUE, path_id |-> p, variable |-> v.name]
                  /\ active' = active
                  /\ entered' = entered
                  /\ chat_ctx' = chat_ctx
                  /\ announced' = announced
                  /\ DOMAIN path_variables' = DOMAIN path_variables \cup {p}
                  /\ \A q \in DOMAIN path_variables' :
                       /\ q # p => path_variables'[q] = path_variables[q]
                       /\ q = p => /\ DOMAIN path_variables'[p]
                                        = Captured(path_variables, p) \cup {v.name}
                                   /\ \A n \in Captured(path_variables, p) \ {v.name} :
                                        path_variables'[p][n] = path_variables[p][n]]_vars

C8_Witness ==
    /\ lastOp.op = "record"
    /\ lastOp.outcome = "ok"
    /\ Cardinality(Captured(path_variables, lastOp.path)) = 2
    /\ Cardinality(DOMAIN path_variables) = 2

\* C9: a successful transfer hands the target a copy of the session history followed, when
\* a variable was collected for the path, by one system note with the path id, the path
\* name and the captured values of the declared required variables, and by nothing when no
\* variable was collected; the session history itself is unchanged.
C9_HandedContext ==
    [][\A p \in PathIds :
         (Transfer(p) /\ lastOp'.outcome = "ok")
         => LET path == workflow_config.paths[p]
                collected == get_path_variables(path_variables, p)
                note == [role |-> "system", tag |-> "handoff", agent |-> None,
                         summary |-> [path_id |-> p,
                                      path_name |-> IF path.name = "" THEN p ELSE path.name,
                                      variables |-> [n \in RequiredNames(path) |->
                                                        collected[n]]]]
            IN  /\ history' = history
                /\ chat_ctx'[path.target_agent_id]
                     = IF DOMAIN collected # {} THEN history \o <<note>> ELSE history]_vars

C9_Witness ==
    /\ lastOp.op = "transfer"
    /\ lastOp.outcome = "ok"
    /\ Len(history) > 0
    /\ Len(chat_ctx[lastOp.returned]) = Len(history) + 1
    /\ chat_ctx[lastOp.returned][Len(history) + 1].tag = "handoff"

C9_WitnessNoNote ==
    /\ lastOp.op = "transfer"
    /\ lastOp.outcome = "ok"
    /\ Len(history) > 0
    /\ chat_ctx[lastOp.returned] = history

\* C10: a transfer whose target is not in the session's agent map fails with a ValueError
\* once its precondition holds, returns no agent and updates no agent's context.
C10_MissingTargetIsFatal ==
    [][\A p \in PathIds :
         (Transfer(p) /\ workflow_config.paths[p].target_agent_id \notin personas)
         => /\ lastOp'.outcome # "ok"
            /\ lastOp'.returned = None
            /\ chat_ctx' = chat_ctx
            /\ active' = active
            /\ GuardSatisfied(path_variables, p) => lastOp'.outcome = "ValueError"]_vars

C10_Witness ==
    /\ lastOp.op = "transfer"
    /\ lastOp.outcome = "ValueError"
    /\ workflow_config.paths[lastOp.path].required_variables # <<>>

\* C11: session start creates one agent per node of the graph and starts the session with
\* the agent named by entry_agent_id as the active agent; when that id names no created
\* agent the start fails with a ValueError and the session never starts.
C11_StartWithEntryAgent ==
    [][/\ StartSession
          => /\ personas' = workflow_config.agents
             /\ IF workflow_config.entry_agent_id \in workflow_config.agents
                THEN /\ phase' = "running"
                     /\ active' = workflow_config.entry_agent_id
                     /\ lastOp'.outcome = "ok"
                ELSE /\ phase' = "failed"
                     /\ active' = None
                     /\ lastOp'.outcome = "ValueError"
       /\ phase = "failed" => (phase' = "failed" /\ active' = None /\ ~entered')
       /\ phase' = "running" => (phase = "running" \/ StartSession)]_vars

C11_Witness ==
    /\ lastOp.op = "start"
    /\ phase = "running"
    /\ active = "a2"
    /\ personas = AgentIds

C11_WitnessFailed ==
    /\ lastOp.op = "start"
    /\ phase = "failed"
    /\ personas = AgentIds

(***************************************************************************)
(* Properties of one integration-tool invocation (checked under ToolSpec)  *)
(***************************************************************************)
Entries(op) == {i \in 1..Len(log) : log[i].op = op}

ForcedByCall == {i \in Entries("refresh") : log[i].info = "call_forced"}

C5_FailuresAreToolErrors ==
    (pc = "done" /\ result.outcome # "ok") => result.outcome = "ToolError"

\* the connection read at the start calls for a refresh: no access token stored, or the
\* declared expiry at or before now + 30 s
NeedsRefresh ==
    \/ loc.connection.access_token_secret_id = NoId
    \/ /\ loc.connection.expires_at # NoTime
       /\ loc.connection.expires_at <= now + 30

\* the resolver calls, or has called, the token-refresh endpoint
CallsRefresh ==
    \/ pc = "refresh_call" /\ loc.resume = "resolve"
    \/ \E i \in Entries("refresh") : log[i].info = "resolve"

\* the resolver has got past reading the secrets, or has failed
ResolverDecided == loc.connection.present /\ pc \notin {"load_access", "load_refresh"}

ResolverReadFailed ==
    /\ pc = "done"
    /\ log[Len(log)].op = "get_secret"
    /\ log[Len(log)].info \in {"load_access", "load_refresh"}

\* the resolver has just returned: nothing after it has talked to a collaborator yet
ResolverJustReturned ==
    /\ pc \in {"call", "userinfo"}
    /\ Entries("call") = {}
    /\ Entries("userinfo") = {}

ReturnsStoredTokenUntouched ==
    (ResolverJustReturned /\ ~NeedsRefresh)
    => /\ loc.access_token = StoredAccessToken
       /\ loc.access_token = vault[loc.connection.access_token_secret_id]
       /\ \A i \in 1..Len(log) : log[i].op \in {"get_connection", "get_secret"}
       /\ db_conn = loc.connection

\* C6 as stated: the refresh endpoint is called exactly when no access token is stored or
\* the expiry is at or before now + 30 s; otherwise the stored token is returned untouched.
C6_RefreshIffStale ==
    /\ ResolverDecided => (CallsRefresh <=> NeedsRefresh)
    /\ ReturnsStoredTokenUntouched

\* C6 amended: the refresh endpoint is called exactly when the secrets could be read, a
\* refresh token is stored, and no access token is stored or the expiry is at or before
\* now + 30 s; otherwise, when no refresh is needed, the stored token is returned untouched.
C6_RefreshIffStaleAndRefreshable ==
    /\ ResolverDecided
       => (CallsRefresh <=> /\ NeedsRefresh
                            /\ ~ResolverReadFailed
                            /\ loc.connection.refresh_token_secret_id # NoId)
    /\ ReturnsStoredTokenUntouched

C6_Witness ==
    /\ \E i \in Entries("refresh") : log[i].info = "resolve"
    /\ loc.connection.access_token_secret_id # NoId
    /\ loc.connection.expires_at = StartTime + 30

C6_WitnessFresh ==
    /\ ResolverJustReturned
    /\ loc.connection.expires_at = StartTime + 31
    /\ Entries("refresh") = {}

\* C12: with no connection record the invocation fails with the 'not connected' ToolError
\* naming the provider, after the single lookup and nothing else: no vault read, no
\* refresh, no integration call, no second lookup.
C12_NotConnectedFailsAtOnce ==
    [][/\ (GetConnection(FALSE) /\ ~db_conn.present)
          => /\ pc' = "done"
             /\ result' = [outcome |-> "ToolError", message |-> NotConnectedMessage(tool.kind)]
             /\ log' = <<[op |-> "get_connection", info |-> "", msg |-> ""]>>
             /\ db_conn' = db_conn
             /\ vault' = vault
       /\ pc = "done" => (pc' = "done" /\ log' = log /\ result' = result)]_vars

C12_Witness ==
    /\ pc = "done"
    /\ tool.kind = "gmail"
    /\ ~db_conn.present
    /\ result = [outcome |-> "ToolError",
                 message |-> "Gmail is not connected for this organization."]
    /\ Len(log) = 1

\* the connection record calls for a refresh
NeedsRefreshOf(connection) ==
    \/ connection.access_token_secret_id = NoId
    \/ /\ connection.expires_at # NoTime
       /\ connection.expires_at <= now + 30

\* the step in which the resolver, having read what it could, decides about refreshing a
\* connection that has no refresh token
ResolverDecidesWithoutRefreshToken ==
    \/ /\ GetConnection(FALSE)
       /\ db_conn.present
       /\ db_conn.access_token_secret_id = NoId
       /\ db_conn.refresh_token_secret_id = NoId
    \/ /\ LoadSecret(FALSE)
       /\ pc = "load_access"
       /\ vault[loc.connection.access_token_secret_id] # NoToken
       /\ loc.connection.refresh_token_secret_id = NoId
       /\ NeedsRefreshOf(loc.connection)

\* the step in which a refresh is forced on a connection that has no refresh token
ForcedWithoutRefreshToken ==
    /\ loc.connection.refresh_token_secret_id = NoId
    /\ \/ /\ pc = "call"
          /\ \E status \in {"401", "403"} : \E message \in ProviderMessages :
                IntegrationCall(status, message)
       \/ /\ loc.lookup = "first"
          /\ FetchUserinfo("error")

ReconnectMessages == {"Refresh token is missing; reconnect the integration.",
                      "Credentials expired; reconnect the integration."}

SecretWrites == Entries("update_secret") \cup Entries("create_secret")

C13_WitnessResolver ==
    /\ pc = "done"
    /\ result.message = "Refresh token is missing; reconnect the integration."
    /\ loc.connection.access_token_secret_id # NoId
    /\ loc.connection.expires_at = StartTime + 10

\* C14: a first integration call that fails with anything but 401/403 ends the invocation
\* with a ToolError after that one call, with no forced refresh and no retry.  (Refuted: a
\* call that fails in the transport, e.g. the 10 s timeout, raises outside any handler.)
C14_OtherFailureIsTypedAndFinal ==
    [][(/\ pc = "call"
        /\ \E status \in CallStatuses \ {"200", "401", "403"} :
             \E message \in ProviderMessages : IntegrationCall(status, message))
       => /\ pc' = "done"
          /\ result'.outcome = "ToolError"
          /\ Cardinality({i \in 1..Len(log') : log'[i].op = "call"}) = 1
          /\ \A i \in 1..Len(log') :
                log'[i].op = "refresh" => log'[i].info # "call_forced"]_vars

\* the caller arguments of the model that are well-formed
WellFormedArguments ==
    {GoodGmailArgs,
     [GoodGmailArgs EXCEPT !.cc = JStr(<<"c","@","d",","," ","e","@","f">>),
                           !.bodyIsHtml = JStr(<<"Y","E","S">>)],
     [is_dict |-> TRUE, searchValue |-> JStr(<<" ","A","C","1">>)]}

\* C15: an invocation with malformed caller arguments ends with a ToolError before any
\* connection lookup, vault read, token refresh or integration call.
C15_ValidationPrecedesInteraction ==
    [][/\ \A args \in (GmailArguments \cup AirtableArguments) \ WellFormedArguments :
            Invoke(args) => /\ pc' = "done"
                            /\ result'.outcome = "ToolError"
                            /\ result'.message # ""
                            /\ log' = <<>>
                            /\ db_conn' = db_conn
                            /\ vault' = vault
       /\ pc = "done" => (pc' = "done" /\ log' = log)
       /\ (pc = "idle" /\ log' # log) => FALSE]_vars

C15_Witness ==
    /\ pc = "done"
    /\ log = <<>>
    /\ result = [outcome |-> "ToolError", message |-> "Too many recipients provided."]

C15_WitnessInvalidAddress ==
    /\ pc = "done"
    /\ log = <<>>
    /\ result = [outcome |-> "ToolError",
                 message |-> "Parameter contains an invalid email address."]

\* C16: when the provider rotated the refresh token, a failure to persist it (vault write
\* or connection-record write) is tolerated: the refresh returns the new access token and
\* the invocation goes on.  (Refuted: only the vault failure is caught; a failing
\* connection-record write raises through _refresh_*_token.)
C16_RotatedTokenFailureTolerated ==
    [][(\/ pc = "store_refresh_vault" /\ StoreSecret(TRUE)
        \/ pc = "store_refresh_db" /\ UpsertConnection(TRUE))
       => /\ pc' # "done"
          /\ loc'.access_token = loc.new_access]_vars

(***************************************************************************)
(* Properties of two interleaved token resolutions (checked under RaceSpec)*)
(***************************************************************************)
RacePositions == {"get_connection", "load_access", "load_refresh", "refresh_call",
                  "store_access_vault", "store_access_db", "store_refresh_vault",
                  "store_refresh_db", "call", "userinfo"}

\* the invocation called the token endpoint and was issued a token
Refreshed(locals) == locals.new_access # NoToken

BothRefreshedAndReturned ==
    /\ Returned(pc)
    /\ Returned(parked.pc)
    /\ Refreshed(loc)
    /\ Refreshed(parked.loc)

C17_WitnessSameSecret ==
    /\ BothRefreshedAndReturned
    /\ db_conn.access_token_secret_id = AccessSecretId
    /\ vault[AccessSecretId] = parked.loc.new_access

(***************************************************************************)
(* Properties of the cache and the session starts (checked under CacheSpec)*)
(***************************************************************************)
\* C18: the cache behaves as a plain map over version ids: get(v) is the graph last set
\* for v unless v was invalidated or the cache cleared since; an entry disappears only by
\* invalidate of its key or by clear; invalidate(v) leaves every other entry alone and is
\* a no-op on an absent key.
C18_CacheIsPlainMap ==
    [][/\ \A v \in VersionIds : cache_get(cache', v) = amap'[v]
       /\ \A v \in VersionIds :
            (cache_get(cache, v) # NoGraph /\ cache_get(cache', v) = NoGraph)
            => (Clear \/ Invalidate(v))
       /\ \A v \in VersionIds :
            Invalidate(v) => /\ \A w \in VersionIds \ {v} :
                                  cache_get(cache', w) = cache_get(cache, w)
                             /\ cache_get(cache', v) = NoGraph
                             /\ cache_get(cache, v) = NoGraph => cache' = cache]_vars

C18_Witness ==
    /\ cache_get(cache, "v1") # NoGraph
    /\ cache_get(cache, "v1").revision = 2
    /\ cache_get(cache, "v2") = NoGraph
    /\ \E s \in Starters : starts[s].config.version_id = "v2"

\* the persistence collaborator can give a graph for the version
Loadable(v) == v \in VersionRows /\ stored[v] >= 1

\* the version a session start is for: the one its metadata names, else the published
\* version of its workflow
TargetVersion(start) ==
    IF start.by = "version" THEN start.version_id ELSE Published[start.workflow_id]

IsGraphOf(config, v) == config.version_id = v /\ config.complete /\ config.revision >= 1

\* C19: however session starts for a version interleave, each start of a loadable version
\* ends with a fully loaded graph of that version, a start that loaded leaves a graph of
\* that version in the cache, also when one was cached already.
C19_ConcurrentStartsGetTheGraph ==
    [][/\ \A s \in Starters :
            /\ starts'[s].pc = "ready"
                  => IsGraphOf(starts'[s].config, TargetVersion(starts'[s]))
            /\ starts'[s].pc = "failed"
                  => \/ TargetVersion(starts'[s]) = None
                     \/ ~Loadable(TargetVersion(starts'[s]))
       /\ \A s \in Starters :
            (Build(s) /\ starts'[s].pc = "ready")
            => /\ IsGraphOf(cache_get(cache', starts[s].version_id), starts[s].version_id)
               /\ \A w \in VersionIds \ {starts[s].version_id} :
                     cache_get(cache', w) = cache_get(cache, w)]_vars

\* two starts missed the cache for the same version and both loaded it
C19_Witness ==
    /\ \A s \in Starters : /\ starts[s].pc = "ready"
                            /\ starts[s].version_id = "v2"
                            /\ ~starts[s].hit
    /\ nstarts = 2
    /\ cache_get(cache, "v2") # NoGraph

C20_WitnessFailedLoad ==
    \E s \in Starters :
        /\ starts[s].pc = "failed"
        /\ starts[s].version_id = "v3"
        /\ cache_get(cache, "v3") = NoGraph

(***************************************************************************)
(* WorkflowLoader (runtime/loader.py), cut at its awaits: every action is  *)
(* one repository read completing and the code up to the next read.        *)
(***************************************************************************)
\* Python truth value of a JSON value
Truthy(v) == CASE v.t = "null" -> FALSE
               [] v.t = "bool" -> v.b
               [] v.t = "str"  -> v.s # <<>>
               [] OTHER        -> v.n # 0

\* agent_config.metadata and agent_config.metadata.get("is_entry")
MarksEntry(metadata) == metadata.present /\ Truthy(metadata.is_entry)

\* PathConfig(...) of one path row and its variable rows
LoadedPath(path_row, variables) ==
    [id |-> path_row.id, target_agent_id |-> path_row.to_agent_id,
     required_variables |-> variables]

\* AgentConfig(...) of one agent row with its tools and paths
LoadedAgent(agent_row, tools, paths) ==
    [id |-> agent_row.id, metadata |-> agent_row.metadata, tools |-> tools, paths |-> paths]

\* agents[str(agent_row.id)] = AgentConfig(...): a dict keeps insertion order
DictPut(agents, agent) ==
    IF \E k \in 1..Len(agents) : agents[k].id = agent.id
    THEN [k \in 1..Len(agents) |-> IF agents[k].id = agent.id THEN agent ELSE agents[k]]
    ELSE Append(agents, agent)

Keys(agents) == {agents[k].id : k \in 1..Len(agents)}

RECURSIVE LastMarked(_)
LastMarked(agents) ==
    IF agents = <<>> THEN None
    ELSE IF MarksEntry(agents[Len(agents)].metadata) THEN agents[Len(agents)].id
    ELSE LastMarked(SubSeq(agents, 1, Len(agents) - 1))

\* for agent_config in agents.values(): if marked: entry_agent_id = ...; break
RECURSIVE FirstMarked(_)
FirstMarked(agents) ==
    IF agents = <<>> THEN None
    ELSE IF MarksEntry(Head(agents).metadata) THEN Head(agents).id
    ELSE FirstMarked(Tail(agents))

\* the entry agent of the assembled agents, None when there is none
SelectEntry(agents) ==
    IF FirstMarked(agents) # None THEN FirstMarked(agents)
    ELSE IF agents # <<>> THEN agents[1].id
    ELSE None

\* if not agent_rows: return None
zero_agents(agent_rows) == agent_rows = <<>>

\* the return of _build_runtime_config once every agent is assembled
Assembled(agents) ==
    IF SelectEntry(agents) = None THEN NotFound
    ELSE [kind |-> "graph", agents |-> agents, entry_agent_id |-> SelectEntry(agents)]

\* load_workflow_version(version_id) up to its first read
LoadWorkflowVersion ==
    /\ ld.pc = "idle"
    /\ ld' = [ld EXCEPT !.pc = "get_version", !.via = "version"]
    /\ UNCHANGED <<LoaderFrame, fetched>>

\* load_workflow(workflow_id, use_draft=False) up to its first read
LoadWorkflow ==
    /\ ld.pc = "idle"
    /\ ld' = [ld EXCEPT !.pc = "get_workflow", !.via = "workflow"]
    /\ UNCHANGED <<LoaderFrame, fetched>>

\* repository.get_version
GetVersion ==
    /\ ld.pc = "get_version"
    /\ fetched' = fetched \cup {<<"version", None>>}
    /\ ld' = IF rows.has_version THEN [ld EXCEPT !.pc = "get_workflow"]
              ELSE [ld EXCEPT !.pc = "done", !.result = NotFound]
    /\ UNCHANGED LoaderFrame

\* repository.get_workflow
GetWorkflow ==
    /\ ld.pc = "get_workflow"
    /\ fetched' = fetched \cup {<<"workflow", None>>}
    /\ ld' = IF ~rows.has_workflow THEN [ld EXCEPT !.pc = "done", !.result = NotFound]
              ELSE IF ld.via = "version" THEN [ld EXCEPT !.pc = "list_agents"]
              ELSE [ld EXCEPT !.pc = "get_published_version"]
    /\ UNCHANGED LoaderFrame

\* repository.get_published_version
GetPublishedVersion ==
    /\ ld.pc = "get_published_version"
    /\ fetched' = fetched \cup {<<"version", None>>}
    /\ ld' = IF rows.has_version THEN [ld EXCEPT !.pc = "list_agents"]
              ELSE [ld EXCEPT !.pc = "done", !.result = NotFound]
    /\ UNCHANGED LoaderFrame

\* repository.list_agents
ListAgents ==
    /\ ld.pc = "list_agents"
    /\ fetched' = fetched \cup {<<"agents", None>>}
    /\ ld' = IF zero_agents(rows.agent_rows)
              THEN [ld EXCEPT !.pc = "done", !.result = NotFound]
              ELSE IF rows.agent_rows = <<>>
              THEN [ld EXCEPT !.pc = "done", !.result = Assembled(<<>>)]
              ELSE [ld EXCEPT !.pc = "list_tools", !.i = 1, !.agents = <<>>]
    /\ UNCHANGED LoaderFrame

\* repository.list_tools(agent_row.id)
ListTools ==
    /\ ld.pc = "list_tools"
    /\ fetched' = fetched \cup {<<"tools", rows.agent_rows[ld.i].id>>}
    /\ ld' = [ld EXCEPT !.pc = "list_paths",
                         !.tools = rows.tool_rows[rows.agent_rows[ld.i].id]]
    /\ UNCHANGED LoaderFrame

AfterAgentFirstOnly(paths) ==
    [ld EXCEPT !.pc = "done", !.j = 0, !.tools = <<>>, !.paths = <<>>,
               !.agents = DictPut(ld.agents,
                                  LoadedAgent(rows.agent_rows[ld.i], ld.tools, paths)),
               !.result = Assembled(DictPut(ld.agents,
                                  LoadedAgent(rows.agent_rows[ld.i], ld.tools, paths)))]

\* the end of the loop body for agent i with its paths: store the agent, go on with the
\* next agent row or select the entry agent and return
AfterAgent(paths) ==
    LET agent_row == rows.agent_rows[ld.i]
        agents    == DictPut(ld.agents, LoadedAgent(agent_row, ld.tools, paths))
    IN  IF ld.i < Len(rows.agent_rows)
        THEN [ld EXCEPT !.pc = "list_tools", !.i = ld.i + 1, !.j = 0, !.tools = <<>>,
                        !.paths = <<>>, !.agents = agents]
        ELSE [ld EXCEPT !.pc = "done", !.j = 0, !.tools = <<>>, !.paths = <<>>,
                        !.agents = agents, !.result = Assembled(agents)]

\* repository.list_paths(agent_row.id)
ListPaths ==
    LET path_rows == rows.path_rows[rows.agent_rows[ld.i].id]
    IN  /\ ld.pc = "list_paths"
        /\ fetched' = fetched \cup {<<"paths", rows.agent_rows[ld.i].id>>}
        /\ ld' = IF path_rows = <<>> THEN AfterAgent(<<>>)
                  ELSE [ld EXCEPT !.pc = "list_path_variables", !.j = 1, !.paths = <<>>]
        /\ UNCHANGED LoaderFrame

\* repository.list_path_variables(path_row.id)
ListPathVariables ==
    LET path_rows == rows.path_rows[rows.agent_rows[ld.i].id]
        path_row  == path_rows[ld.j]
        paths     == Append(ld.paths, LoadedPath(path_row, rows.var_rows[path_row.id]))
    IN  /\ ld.pc = "list_path_variables"
        /\ fetched' = fetched \cup {<<"variables", path_row.id>>}
        /\ ld' = IF ld.j < Len(path_rows)
                  THEN [ld EXCEPT !.j = ld.j + 1, !.paths = paths]
                  ELSE AfterAgent(paths)
        /\ UNCHANGED LoaderFrame

LoaderInit ==
    /\ SessionQuiet
    /\ ToolQuiet
    /\ RaceQuiet
    /\ CacheQuiet
    /\ PairQuiet
    /\ CaptureQuiet
    /\ BuildQuiet
    /\ HelperQuiet
    /\ VaultQuiet
    /\ rows \in Rows
    /\ ld = NoLoad
    /\ fetched = {}

LoaderNext ==
    \/ LoadWorkflowVersion
    \/ LoadWorkflow
    \/ GetVersion
    \/ GetWorkflow
    \/ GetPublishedVersion
    \/ ListAgents
    \/ ListTools
    \/ ListPaths
    \/ ListPathVariables

LoaderSpec == LoaderInit /\ [][LoaderNext]_vars

\* the agent rows, by position in load order, whose metadata has is_entry set to true
MarkedRows == {k \in 1..Len(rows.agent_rows) :
                 /\ rows.agent_rows[k].metadata.present
                 /\ rows.agent_rows[k].metadata.is_entry = JBool(TRUE)}

Loaded == ld.result.kind = "graph"

\* C21: the entry agent of a loaded graph is the first agent row in load order whose
\* metadata marks it as entry, and the first agent row when no row is marked.
C21_EntryIsFirstMarkedElseFirst ==
    Loaded =>
        IF MarkedRows # {}
        THEN \E k \in MarkedRows :
                 /\ \A m \in MarkedRows : k <= m
                 /\ ld.result.entry_agent_id = rows.agent_rows[k].id
        ELSE ld.result.entry_agent_id = rows.agent_rows[1].id

\* both agents are marked and the one listed first is neither a1 nor the last marked
C21_Witness ==
    /\ Loaded
    /\ MarkedRows = {1, 2}
    /\ rows.agent_rows[1].id = "a2"
    /\ ld.result.entry_agent_id = "a2"

C21_WitnessSecondMarked ==
    /\ Loaded
    /\ MarkedRows = {2}
    /\ ld.result.entry_agent_id = rows.agent_rows[2].id

C21_WitnessNoneMarked ==
    /\ Loaded
    /\ MarkedRows = {}
    /\ Len(rows.agent_rows) = 2
    /\ rows.agent_rows[1].metadata.is_entry = JBool(FALSE)
    /\ ld.result.entry_agent_id = rows.agent_rows[1].id

\* the agent of the returned graph for an agent row carries all of the row's tools, paths
\* and path variables
CompleteAgent(agent, agent_row) ==
    /\ agent.id = agent_row.id
    /\ agent.tools = rows.tool_rows[agent_row.id]
    /\ Len(agent.paths) = Len(rows.path_rows[agent_row.id])
    /\ \A j \in 1..Len(agent.paths) :
          /\ agent.paths[j].id = rows.path_rows[agent_row.id][j].id
          /\ agent.paths[j].required_variables = rows.var_rows[agent.paths[j].id]

AllFetched ==
    \A k \in 1..Len(rows.agent_rows) :
        /\ <<"tools", rows.agent_rows[k].id>> \in fetched
        /\ <<"paths", rows.agent_rows[k].id>> \in fetched
        /\ \A j \in 1..Len(rows.path_rows[rows.agent_rows[k].id]) :
              <<"variables", rows.path_rows[rows.agent_rows[k].id][j].id>> \in fetched

\* C22: a returned graph has at least one agent and its entry agent among them, it is
\* returned only after the tools, paths and path variables of every agent row were read
\* and it carries all of them; a missing workflow or version and a version without
\* agents give None; nothing is returned while reads are outstanding.
C22_GraphIsCompleteOrNotFound ==
    /\ Loaded =>
          /\ ld.result.agents # <<>>
          /\ ld.result.entry_agent_id \in Keys(ld.result.agents)
          /\ AllFetched
          /\ Len(ld.result.agents) = Len(rows.agent_rows)
          /\ \A k \in 1..Len(rows.agent_rows) :
                CompleteAgent(ld.result.agents[k], rows.agent_rows[k])
    /\ ld.pc = "done" =>
          (ld.result = NotFound
             <=> (~rows.has_workflow \/ ~rows.has_version \/ rows.agent_rows = <<>>))
    /\ ld.pc # "done" => ld.result = NoAnswer

\* two agents, the first with two paths, one of them with a variable
C22_Witness ==
    /\ Loaded
    /\ Len(ld.result.agents) = 2
    /\ Len(ld.result.agents[1].paths) = 2
    /\ ld.result.agents[1].paths[1].required_variables # <<>>
    /\ ld.result.agents[1].tools # <<>>

C22_WitnessZeroAgents ==
    /\ ld.pc = "done"
    /\ rows.has_workflow
    /\ rows.has_version
    /\ ld.result = NotFound

\* C23: every path of every agent of a returned graph targets an agent of that graph.
C23_TargetsAreAgentsOfTheGraph ==
    Loaded =>
        \A k \in 1..Len(ld.result.agents) :
            \A j \in 1..Len(ld.result.agents[k].paths) :
                ld.result.agents[k].paths[j].target_agent_id \in Keys(ld.result.agents)

\* C24: the agent map is filled once, by the session start, with exactly the agents of the
\* graph, and no later step (capture, transfer, agent entry, user turn) changes it.
C24_AgentMapIsBuiltOnce ==
    [][IF phase = "loaded"
       THEN phase' # "loaded" => personas' = workflow_config.agents
       ELSE personas' = personas /\ personas = workflow_config.agents]_vars

\* a transfer to another agent and a transfer to an unknown target have both happened
C24_Witness ==
    /\ phase = "running"
    /\ workflow_config.entry_agent_id = "a2"
    /\ active = "a1"
    /\ lastOp.op = "transfer"
    /\ lastOp.outcome = "ValueError"
    /\ personas = AgentIds

\* C25: an entry of the variable store, once present, is present after every later step
\* of the session; only its value may change.
C25_StoreGrowsMonotonically ==
    [][\A p \in DOMAIN path_variables :
          /\ p \in DOMAIN path_variables'
          /\ DOMAIN path_variables[p] \subseteq DOMAIN path_variables'[p]]_vars

\* variables were captured for a path, the session transferred, and variables were
\* captured for the next agent's path: both paths' entries are there
C25_Witness ==
    /\ DOMAIN path_variables = {"p1", "p2"}
    /\ "accountId" \in DOMAIN path_variables["p1"]
    /\ active = "a2"

\* both variables of one path are present, one of them captured from a boolean
C25_WitnessTwoVariables ==
    /\ "p1" \in DOMAIN path_variables
    /\ "accountId" \in DOMAIN path_variables["p1"]
    /\ path_variables["p1"]["accountId"] = JStr(<<"F","a","l","s","e">>)
    /\ "consent" \in DOMAIN path_variables["p1"]

(***************************************************************************)
(* Two sessions in one process: worker.entrypoint from the loaded graph to *)
(* the running session, and the capture and transfer tools of each, on     *)
(* objects kept by identity.                                               *)
(***************************************************************************)
shared_default_dict(objects) == 1

\* field(default_factory=dict): every UserData gets a dict object of its own
default_factory_dict(objects) == Cardinality(DOMAIN objects) + 1

\* BaseConfigurableAgent(...) in create_agent for the k-th agent of the graph: a new
\* agent object
BaseConfigurableAgent(objects, k) == Cardinality(DOMAIN objects) + k

AgentOrder == <<"a1", "a2">>

\* entrypoint: agent_instances, UserData, entry agent, session
PairStart(i) ==
    LET store  == default_factory_dict(dicts)
        agents == [a \in graph.agents |->
                     BaseConfigurableAgent(instances, IndexIn(a, AgentOrder))]
    IN  /\ sessions[i].phase = "idle"
        /\ dicts' = [d \in DOMAIN dicts \cup {store} |->
                        IF d \in DOMAIN dicts THEN dicts[d] ELSE [q \in {} |-> EmptyVars]]
        /\ instances' = [o \in DOMAIN instances \cup {agents[a] : a \in graph.agents} |->
                            IF o \in DOMAIN instances THEN instances[o] ELSE <<>>]
        /\ sessions' = [sessions EXCEPT ![i] =
                           [phase |-> "running", path_variables |-> store,
                            personas |-> agents,
                            active |-> EntryAgent(graph.agents, graph)]]
        /\ actor' = i
        /\ UNCHANGED PairFrame

\* record_variable of session i's active agent
PairRecord(i, p, k, args) ==
    LET path     == graph.paths[p]
        variable == path.required_variables[k]
        coerced  == _coerce_variable_value(args.value, variable.data_type)
        store    == sessions[i].path_variables
    IN  /\ sessions[i].phase = "running"
        /\ path.owner = sessions[i].active
        /\ dicts' = IF args.shape = "value" /\ coerced.err = ""
                     THEN [dicts EXCEPT ![store] =
                              set_path_variable(dicts[store], p, variable.name, coerced.val)]
                     ELSE dicts
        /\ actor' = i
        /\ UNCHANGED <<PairFrame, sessions, instances>>

\* transfer_func of session i's active agent
PairTransfer(i, p) ==
    LET path       == graph.paths[p]
        prepared   == _prepare_handoff_summary(dicts[sessions[i].path_variables], path)
        next_agent == personas_get(DOMAIN sessions[i].personas, path.target_agent_id)
    IN  /\ sessions[i].phase = "running"
        /\ path.owner = sessions[i].active
        /\ IF prepared.missing # <<>> \/ next_agent = None
           THEN UNCHANGED <<sessions, instances>>
           ELSE /\ instances' = [instances EXCEPT ![sessions[i].personas[next_agent]] =
                                    HandoffContext(<<>>, prepared.summary)]
                /\ sessions' = [sessions EXCEPT ![i].active = next_agent]
        /\ actor' = i
        /\ UNCHANGED <<PairFrame, dicts>>

PairInit ==
    /\ SessionQuiet
    /\ ToolQuiet
    /\ RaceQuiet
    /\ CacheQuiet
    /\ LoaderQuiet
    /\ CaptureQuiet
    /\ BuildQuiet
    /\ HelperQuiet
    /\ VaultQuiet
    /\ graph \in PairGraphs
    /\ sessions = [i \in SessionIds |-> NoSession]
    /\ dicts = [d \in {} |-> EmptyVars]
    /\ instances = [o \in {} |-> <<>>]
    /\ actor = NoRef

PairNext ==
    \/ \E i \in SessionIds : PairStart(i)
    \/ \E i \in SessionIds : \E p \in PathIds :
           \E k \in 1..Len(graph.paths[p].required_variables) :
               \E args \in RawArguments : PairRecord(i, p, k, args)
    \/ \E i \in SessionIds : \E p \in PathIds : PairTransfer(i, p)

PairSpec == PairInit /\ [][PairNext]_vars

\* what session j owns: its phase, its active agent, its agent map and the contents of its
\* variable store and of its agents
Owned(ss, ds, os, j) ==
    [phase |-> ss[j].phase,
     active |-> ss[j].active,
     personas |-> ss[j].personas,
     path_variables |-> IF ss[j].phase = "idle" THEN [q \in {} |-> EmptyVars]
                        ELSE ds[ss[j].path_variables],
     agents |-> [a \in DOMAIN ss[j].personas |-> os[ss[j].personas[a]]]]

\* C26: a step of one session (its start, a capture or a transfer) changes nothing the
\* other session owns, and the two sessions hold no object in common besides the graph,
\* which no step changes.
C26_SessionsAreIsolated ==
    [][/\ \A j \in SessionIds \ {actor'} :
             Owned(sessions', dicts', instances', j) = Owned(sessions, dicts, instances, j)
       /\ graph' = graph
       /\ \A i \in SessionIds : \A j \in SessionIds \ {i} :
             (sessions'[i].phase = "running" /\ sessions'[j].phase = "running")
             => /\ sessions'[i].path_variables # sessions'[j].path_variables
                /\ \A a \in DOMAIN sessions'[i].personas :
                      \A b \in DOMAIN sessions'[j].personas :
                          sessions'[i].personas[a] # sessions'[j].personas[b]]_vars

\* both sessions run on the same graph, each has captured its own value for the same
\* variable of the same path, and one of them has transferred
C26_Witness ==
    /\ \A i \in SessionIds : sessions[i].phase = "running"
    /\ \A i \in SessionIds : "p1" \in DOMAIN dicts[sessions[i].path_variables]
    /\ dicts[sessions[1].path_variables]["p1"] # dicts[sessions[2].path_variables]["p1"]
    /\ sessions[1].active # sessions[2].active

(***************************************************************************)
(* The capture tool on its own: record_variable for one variable of path   *)
(* p1, over every declared data type and argument payload.                 *)
(***************************************************************************)
\* record_variable: the store afterwards, the exception raised (None when it returns),
\* its message and the returned payload
record_variable(store, path_id, variable, raw_arguments) ==
    LET coerced == _coerce_variable_value(raw_arguments.value, variable.data_type)
    IN  IF raw_arguments.shape = "notdict"
        THEN [store |-> store, outcome |-> "ToolError",
              message |-> "Invalid arguments payload for variable collection.",
              payload |-> NoPayload]
        ELSE IF raw_arguments.shape = "novalue"
        THEN [store |-> store, outcome |-> "ToolError",
              message |-> "Parameter 'value' is required.", payload |-> NoPayload]
        ELSE IF coerced.err # ""
        THEN [store |-> store, outcome |-> coerced.exc, message |-> coerced.err,
              payload |-> NoPayload]
        ELSE [store |-> set_path_variable(store, path_id, variable.name, coerced.val),
              outcome |-> "ok", message |-> "",
              payload |-> [stored |-> TRUE, path_id |-> path_id,
                           variable |-> variable.name]]

Capture(args) ==
    LET done == record_variable(captured, "p1",
                                [name |-> "accountId", data_type |-> declared], args)
    IN  /\ ncaptures < MaxCaptures
        /\ ncaptures' = ncaptures + 1
        /\ captured' = done.store
        /\ capture' = [args |-> args, outcome |-> done.outcome, message |-> done.message,
                        payload |-> done.payload]
        /\ UNCHANGED CaptureFrame

CaptureInit ==
    /\ SessionQuiet
    /\ ToolQuiet
    /\ RaceQuiet
    /\ CacheQuiet
    /\ LoaderQuiet
    /\ PairQuiet
    /\ BuildQuiet
    /\ HelperQuiet
    /\ VaultQuiet
    /\ declared \in DataTypes
    /\ captured = [p \in {} |-> EmptyVars]
    /\ capture = NoCapture
    /\ ncaptures = 0

CaptureNext == \E args \in CaptureArguments : Capture(args)

CaptureSpec == CaptureInit /\ [][CaptureNext]_vars

\* the data types that declare a boolean
BooleanTypes == {TxtBoolean, TxtBool, <<"B","o","o","l","e","a","n">>}

\* what the last invocation left in the store for the variable
StoredValue == captured["p1"]["accountId"]

ListedTrue == {JBool(TRUE), JStr(<<"t","r","u","e">>), JStr(<<"1">>), JStr(<<"y","e","s">>)}

ListedFalse == {JBool(FALSE), JStr(<<"f","a","l","s","e">>), JStr(<<"0">>),
                JStr(<<"n","o">>)}

\* C27 as stated: for a boolean variable the listed inputs give true and false and every
\* other input fails with a ToolError.
C27_OnlyListedInputsCoerce ==
    (declared \in BooleanTypes /\ capture.args.shape = "value") =>
        IF capture.args.value \in ListedTrue
        THEN capture.outcome = "ok" /\ StoredValue = JBool(TRUE)
        ELSE IF capture.args.value \in ListedFalse
        THEN capture.outcome = "ok" /\ StoredValue = JBool(FALSE)
        ELSE capture.outcome = "ToolError"

\* inputs that read as true after stripping blanks and lower-casing, and the number 1
AcceptedTrue == ListedTrue \cup {JStr(<<"T","R","U","E">>), JStr(<<" ","y","e","s"," ">>),
                                 JInt(1), JFloat(10)}

AcceptedFalse == ListedFalse \cup {JStr(<<"N","o">>), JInt(0), JFloat(0)}

\* C27 amended: for a boolean variable the listed inputs, their spellings in other case or
\* with surrounding blanks, and the numbers 1 and 0 give true and false; every other
\* input fails with a ToolError.
C27_ListedSpellingsAndNumbersCoerce ==
    (declared \in BooleanTypes /\ capture.args.shape = "value") =>
        IF capture.args.value \in AcceptedTrue
        THEN capture.outcome = "ok" /\ StoredValue = JBool(TRUE)
        ELSE IF capture.args.value \in AcceptedFalse
        THEN capture.outcome = "ok" /\ StoredValue = JBool(FALSE)
        ELSE /\ capture.outcome = "ToolError"
             /\ capture.message = "Value must be boolean (true/false)."

\* " yes " was captured as true for a variable declared "Boolean"
C27_Witness ==
    /\ declared = <<"B","o","o","l","e","a","n">>
    /\ capture.args = [shape |-> "value", value |-> JStr(<<" ","y","e","s"," ">>)]
    /\ capture.outcome = "ok"
    /\ StoredValue = JBool(TRUE)

C27_WitnessRejected ==
    /\ declared = TxtBool
    /\ capture.args.value \in {JInt(2), JStr(<<"m","a","y","b","e">>), JNull, JInf}
    /\ capture.args.shape = "value"
    /\ capture.outcome = "ToolError"

\* the arguments the claim lists as failing, by declared data type
StringTypes == DataTypes \ (BooleanTypes \cup {TxtNumber, TxtFloat, TxtInteger, TxtInt})

Unparsable(kinds, value) ==
    /\ declared \in kinds
    /\ \/ value \in {JNull, JInf}
       \/ value \in {JStr(<<"a","b","c">>), JStr(<<>>), JStr(<<"m","a","y","b","e">>),
                      JStr(<<"t","r","u","e">>), JStr(<<"T","R","U","E">>),
                      JStr(<<"y","e","s">>), JStr(<<" ","y","e","s"," ">>),
                      JStr(<<"n","o">>), JStr(<<"N","o">>), JStr(<<"f","a","l","s","e">>)}

FailingArguments(args) ==
    \/ args.shape \in {"notdict", "novalue"}
    \/ /\ args.shape = "value"
       /\ \/ declared \in StringTypes /\ args.value = JNull
          \/ Unparsable({TxtNumber, TxtFloat}, args.value) /\ args.value # JInf
          \/ Unparsable({TxtInteger, TxtInt}, args.value)
          \/ declared \in {TxtInteger, TxtInt} /\ args.value = JStr(<<"1",".","5">>)
          \/ declared \in BooleanTypes
                /\ args.value \notin AcceptedTrue \cup AcceptedFalse

\* C28: a capture whose arguments are no mapping, lack 'value' or carry a value that cannot
\* be coerced to the declared type fails with a ToolError and leaves the store as it was.
C28_FailedCaptureIsTypedAndKeepsStore ==
    [][\A args \in CaptureArguments :
          (Capture(args) /\ FailingArguments(args))
          => /\ capture'.outcome = "ToolError"
             /\ captured' = captured]_vars

\* the part of C28 that holds: whatever the failure, the store is left as it was
StoreKeptOnFailure ==
    [][\A args \in CaptureArguments :
          (Capture(args) /\ FailingArguments(args))
          => /\ capture'.outcome \in {"ToolError", "OverflowError"}
             /\ capture'.outcome = "OverflowError"
                   => (args.value = JInf /\ declared \in {TxtInteger, TxtInt})
             /\ captured' = captured]_vars

FailedAfterCaptured ==
    /\ capture.outcome \notin {None, "ok"}
    /\ "p1" \in DOMAIN captured

(***************************************************************************)
(* The tool registry (runtime/tool_registry.py) and the tools of an agent  *)
(* (AgentFactory.create_agent).  A tool is the callable's kind, the id of  *)
(* the ToolConfig or path it was built for and the part of its __name__    *)
(* that stands before that id; NoFunc is the None a builder returns.       *)
(***************************************************************************)
NoFunc == [kind |-> None, owner |-> None, name |-> None, field_name |-> <<>>]

\* the callable a builder returns, named by _normalize_tool_name
ToolCallable(tool_config, name, field_name) ==
    [kind |-> "integration", owner |-> tool_config.id, name |-> name,
     field_name |-> field_name]

\* the characters _validate_airtable_field_name refuses
InvalidFieldChars == {"{", "}", "\"", "'", "\n", "\r", "\t"}

\* a validation that only trims and refuses the empty name
_validate_airtable_field_name_any_char(field_name) ==
    LET cleaned == StrStrip(field_name)
    IN  [raises |-> cleaned = <<>>, cleaned |-> cleaned]

\* raises is TRUE when _validate_airtable_field_name raises ValueError, cleaned is what
\* it returns otherwise
_validate_airtable_field_name(field_name) ==
    LET cleaned == StrStrip(field_name)
    IN  [raises |-> \/ cleaned = <<>>
                    \/ \E i \in 1..Len(cleaned) : cleaned[i] \in InvalidFieldChars,
         cleaned |-> cleaned]

_build_airtable_find_record_tool(tool_config) ==
    LET base_id == tool_config.config.baseId
        table_id == tool_config.config.tableId
        field_name == IF Truthy(tool_config.config.fieldName) THEN tool_config.config.fieldName
                      ELSE tool_config.config.field
    IN  IF base_id.t # "str" \/ base_id.s = <<>> THEN NoFunc
        ELSE IF table_id.t # "str" \/ table_id.s = <<>> THEN NoFunc
        ELSE IF field_name.t # "str" \/ StrStrip(field_name.s) = <<>> THEN NoFunc
        ELSE IF _validate_airtable_field_name(field_name.s).raises THEN NoFunc
        ELSE ToolCallable(tool_config, "airtable_find_record_by_field",
                          _validate_airtable_field_name(field_name.s).cleaned)

\* TRUE when _validate_config_email raises ValueError
_validate_config_email(value) ==
    \/ value.t # "str"
    \/ StrStrip(value.s) = <<>>
    \/ LET address == StrStrip(value.s)
       IN  \/ \A i \in 1..Len(address) : address[i] # "@"
           \/ address[1] = "@"
           \/ address[Len(address)] = "@"

\* an address override that is taken as written
_optional_config_email_unchecked(value) == FALSE

\* TRUE when _optional_config_email raises ValueError
_optional_config_email(value) ==
    IF value.t = "null" \/ (value.t = "str" /\ StrStrip(value.s) = <<>>) THEN FALSE
    ELSE _validate_config_email(value)

\* TRUE when _coerce_config_bool raises ValueError
_coerce_config_bool(value) ==
    /\ value.t # "null"
    /\ value.t # "bool"
    /\ ~(value.t = "str" /\ StrLower(StrStrip(value.s)) \in TruthyTexts \cup FalsyTexts)

_build_gmail_send_email_tool(tool_config) ==
    IF _optional_config_email(tool_config.config.fromAddress) THEN NoFunc
    ELSE IF _optional_config_email(tool_config.config.replyTo) THEN NoFunc
    ELSE IF _coerce_config_bool(tool_config.config.defaultBodyIsHtml) THEN NoFunc
    ELSE ToolCallable(tool_config, "gmail_send_email", <<>>)

\* the keys of TOOL_BUILDERS
TOOL_BUILDERS == {TxtAirtable, TxtGmail}

\* TOOL_BUILDERS[tool_config.tool_type](tool_config, workflow_config)
builder(tool_config) ==
    IF tool_config.tool_type = TxtAirtable THEN _build_airtable_find_record_tool(tool_config)
    ELSE _build_gmail_send_email_tool(tool_config)

\* a registry that stops at the first tool type it has no builder for
RECURSIVE build_until_unknown(_)
build_until_unknown(tools) ==
    IF tools = <<>> THEN <<>>
    ELSE IF Head(tools).tool_type \notin TOOL_BUILDERS THEN <<>>
    ELSE LET func == builder(Head(tools))
         IN  IF func = NoFunc THEN build_until_unknown(Tail(tools))
             ELSE <<func>> \o build_until_unknown(Tail(tools))

RECURSIVE build_tool_functions(_)
build_tool_functions(tools) ==
    IF tools = <<>> THEN <<>>
    ELSE IF Head(tools).tool_type \notin TOOL_BUILDERS
         THEN build_tool_functions(Tail(tools))
    ELSE LET func == builder(Head(tools))
         IN  IF func = NoFunc THEN build_tool_functions(Tail(tools))
             ELSE <<func>> \o build_tool_functions(Tail(tools))

\* _create_variable_tool(path, variable)
_create_variable_tool(path, variable) ==
    [kind |-> "variable", owner |-> path.id, name |-> variable.name, field_name |-> <<>>]

\* _create_transfer_function(path)
_create_transfer_function(path) ==
    [kind |-> "transfer", owner |-> path.id, name |-> "transfer_to", field_name |-> <<>>]

RECURSIVE variable_tools(_)
variable_tools(paths) ==
    IF paths = <<>> THEN <<>>
    ELSE [k \in 1..Len(Head(paths).required_variables) |->
             _create_variable_tool(Head(paths), Head(paths).required_variables[k])]
         \o variable_tools(Tail(paths))

transfer_tools(paths) == [k \in 1..Len(paths) |-> _create_transfer_function(paths[k])]

\* the loop over merged_tools that keeps the first occurrence of each tool
RECURSIVE deduped_tools(_, _)
deduped_tools(merged_tools, seen) ==
    IF merged_tools = <<>> THEN <<>>
    ELSE IF Head(merged_tools) \in seen THEN deduped_tools(Tail(merged_tools), seen)
    ELSE <<Head(merged_tools)>>
         \o deduped_tools(Tail(merged_tools), seen \cup {Head(merged_tools)})

\* agent._tools after create_agent; the agent class declares no tools of its own
create_agent(config) ==
    deduped_tools(build_tool_functions(config.tools) \o variable_tools(config.paths)
                  \o transfer_tools(config.paths), {})

\* the registry is asked for the tools of the agent's ToolConfigs
BuildToolFunctions ==
    /\ built = "idle"
    /\ functions' = build_tool_functions(agent_config.tools)
    /\ built' = "built"
    /\ UNCHANGED <<BuildFrame, agent_tools>>

\* the factory creates the agent
CreateAgent ==
    /\ built \in {"idle", "built"}
    /\ agent_tools' = create_agent(agent_config)
    /\ built' = "created"
    /\ UNCHANGED <<BuildFrame, functions>>

BuildInit ==
    /\ SessionQuiet
    /\ ToolQuiet
    /\ RaceQuiet
    /\ CacheQuiet
    /\ LoaderQuiet
    /\ PairQuiet
    /\ CaptureQuiet
    /\ HelperQuiet
    /\ VaultQuiet
    /\ agent_config \in [tools : ToolLists, paths : BuildPaths]
    /\ functions = NoFunctions
    /\ agent_tools = NoFunctions
    /\ built = "idle"

BuildNext == BuildToolFunctions \/ CreateAgent

BuildSpec == BuildInit /\ [][BuildNext]_vars

\* the positions of the given tools in agent_config.tools, in the order given
PositionsOf(funcs) == [k \in 1..Len(funcs) |-> IndexIn(funcs[k].owner, ToolIds)]

\* the ToolConfigs with a registered tool type whose builder produces a callable
Produced == {k \in 1..Len(agent_config.tools) :
                /\ agent_config.tools[k].tool_type \in {TxtAirtable, TxtGmail}
                /\ builder(agent_config.tools[k]) # NoFunc}

\* C29: build_tool_functions returns, in the order of the ToolConfigs, exactly the
\* callables the builders produce for the configs with a registered tool type; a config
\* with an unregistered tool type is dropped and changes nothing for the others.
C29_BuildKeepsOrderAndDropsUnknown ==
    built = "built" =>
        /\ \A k \in 1..Len(functions) :
               functions[k] = builder(agent_config.tools[PositionsOf(functions)[k]])
        /\ \A j, k \in 1..Len(functions) :
               j < k => PositionsOf(functions)[j] < PositionsOf(functions)[k]
        /\ {PositionsOf(functions)[k] : k \in 1..Len(functions)} = Produced

\* C29 witness: an unregistered tool type stands before a tool that is built
C29_Witness ==
    /\ built = "built"
    /\ Len(agent_config.tools) = 2
    /\ agent_config.tools[1].tool_type = "slack.post_message"
    /\ Len(functions) = 1
    /\ functions[1].owner = "t2"

\* C29 witness: two tools are built in the order of their ToolConfigs
C29_WitnessTwoBuilt ==
    /\ built = "built"
    /\ Len(functions) = 2
    /\ functions[1].name = "gmail_send_email"
    /\ functions[2].name = "airtable_find_record_by_field"

\* static configurations that are invalid: a record-lookup tool without a non-empty base
\* id, table id or valid field name, a message-send tool with an invalid address or a
\* default that is no boolean
BadBaseIds == {JNull, JStr(<<>>), JInt(5)}

BadFieldNames == {JNull, JStr(<<" "," ">>), JStr(<<"a","{","b">>), JInt(5)}

BadAddresses == {JStr(<<"o","p","s">>), JStr(<<"@","x">>), JStr(<<"x","@">>),
                 JInt(5), JBool(TRUE)}

BadHtmlDefaults == {JInt(1), JStr(<<"m","a","y","b","e">>)}

InvalidStatic(tool_config) ==
    \/ /\ tool_config.tool_type = TxtAirtable
       /\ \/ tool_config.config.baseId \in BadBaseIds
          \/ tool_config.config.tableId \in BadBaseIds
          \/ tool_config.config.fieldName \in BadFieldNames
                /\ ~(tool_config.config.fieldName = JNull /\ tool_config.config.field # JNull)
    \/ /\ tool_config.tool_type = TxtGmail
       /\ \/ tool_config.config.fromAddress \in BadAddresses
          \/ tool_config.config.replyTo \in BadAddresses
          \/ tool_config.config.defaultBodyIsHtml \in BadHtmlDefaults

OwnersOf(kind) == {agent_tools[k].owner : k \in {j \in 1..Len(agent_tools) :
                                                    agent_tools[j].kind = kind}}

\* C30: a ToolConfig with an invalid static configuration produces no tool and no error:
\* the agent is created and carries the tool of every other ToolConfig with a registered
\* type, one capture tool per required variable and one transfer tool per path.
C30_InvalidConfigIsSkipped ==
    built = "created" =>
        /\ \A k \in 1..Len(agent_config.tools) :
               LET tool_config == agent_config.tools[k]
               IN  /\ InvalidStatic(tool_config) => tool_config.id \notin OwnersOf("integration")
                   /\ (/\ tool_config.tool_type \in {TxtAirtable, TxtGmail}
                       /\ ~InvalidStatic(tool_config))
                          => tool_config.id \in OwnersOf("integration")
        /\ \A k \in 1..Len(agent_config.paths) :
               LET path == agent_config.paths[k]
               IN  /\ \E j \in 1..Len(agent_tools) :
                          /\ agent_tools[j].kind = "transfer"
                          /\ agent_tools[j].owner = path.id
                   /\ \A v \in 1..Len(path.required_variables) :
                          \E j \in 1..Len(agent_tools) :
                              /\ agent_tools[j].kind = "variable"
                              /\ agent_tools[j].owner = path.id
                              /\ agent_tools[j].name = path.required_variables[v].name

\* C30 witness: an agent with an invalid message-send tool, a valid record-lookup tool and
\* a path is created with the lookup, both capture tools and the transfer tool
C30_Witness ==
    /\ built = "created"
    /\ Len(agent_config.tools) = 2
    /\ agent_config.tools[1].tool_type = TxtGmail
    /\ agent_config.tools[1].config.replyTo = JStr(<<"x","@">>)
    /\ agent_config.tools[2].tool_type = TxtAirtable
    /\ Len(agent_tools) = 4
    /\ agent_tools[1].owner = "t2"

\* C30 witness: an invalid record-lookup tool is the agent's only ToolConfig
C30_WitnessOnlyInvalid ==
    /\ built = "created"
    /\ Len(agent_config.tools) = 1
    /\ agent_config.tools[1].config.baseId = JStr(<<>>)
    /\ agent_config.tools[1].tool_type = TxtAirtable
    /\ agent_tools = <<>>
    /\ agent_config.paths = <<>>

(***************************************************************************)
(* The configuration helpers of runtime/tool_registry.py                   *)
(***************************************************************************)
\* Python int value of an int or a bool (bool is a subclass of int)
PyInt(v) == IF v.t = "bool" THEN (IF v.b THEN 1 ELSE 0) ELSE v.n

NoParsed == [some |-> FALSE, value |-> JNull]

\* the local `parsed` of both resolvers: isinstance(raw_value, int) holds for bool too
parsed_of(raw_value) ==
    IF raw_value.t \in {"int", "bool"} THEN [some |-> TRUE, value |-> raw_value]
    ELSE IF raw_value.t = "str" /\ StrStrip(raw_value.s) # <<>>
                                /\ IntParses(StrStrip(raw_value.s))
         THEN [some |-> TRUE, value |-> JInt(IntParse(StrStrip(raw_value.s)))]
    ELSE NoParsed

DefaultMaxRecords == 1

MaximumRecords == 20

MaximumRecipients == 20

\* a resolver that lets a value above the ceiling through
_resolve_max_records_unclamped(raw_value) ==
    LET parsed == parsed_of(raw_value)
    IN  IF raw_value.t = "null" \/ ~parsed.some \/ PyInt(parsed.value) < 1
        THEN JInt(DefaultMaxRecords)
        ELSE parsed.value

_resolve_max_records(raw_value) ==
    LET parsed == parsed_of(raw_value)
    IN  IF raw_value.t = "null" THEN JInt(DefaultMaxRecords)
        ELSE IF ~parsed.some THEN JInt(DefaultMaxRecords)
        ELSE IF PyInt(parsed.value) < 1 THEN JInt(DefaultMaxRecords)
        ELSE IF PyInt(parsed.value) > MaximumRecords THEN JInt(MaximumRecords)
        ELSE parsed.value

_resolve_max_recipients(raw_value) ==
    LET parsed == parsed_of(raw_value)
    IN  IF raw_value.t = "null" THEN JInt(DefaultMaxRecipients)
        ELSE IF ~parsed.some THEN JInt(DefaultMaxRecipients)
        ELSE IF PyInt(parsed.value) < 1 THEN JInt(DefaultMaxRecipients)
        ELSE IF PyInt(parsed.value) > MaximumRecipients THEN JInt(MaximumRecipients)
        ELSE parsed.value

\* a literal taken as written
_escape_formula_literal_as_written(value) == value

\* value.replace('"', '""')
RECURSIVE _escape_formula_literal(_)
_escape_formula_literal(value) ==
    IF value = <<>> THEN <<>>
    ELSE IF Head(value) = "\"" THEN <<"\"", "\"">> \o _escape_formula_literal(Tail(value))
    ELSE <<Head(value)>> \o _escape_formula_literal(Tail(value))

\* f'{{{field_name}}} = "{escaped_value}"'
_build_filter_formula(field_name, search_value) ==
    <<"{">> \o field_name \o <<"}", " ", "=", " ", "\"">>
    \o _escape_formula_literal(search_value) \o <<"\"">>

ResolveMaxRecords ==
    /\ applied = "none"
    /\ applied' = "_resolve_max_records"
    /\ answer' = [raises |-> FALSE, value |-> _resolve_max_records(given.raw_value)]
    /\ UNCHANGED HelperFrame

ResolveMaxRecipients ==
    /\ applied = "none"
    /\ applied' = "_resolve_max_recipients"
    /\ answer' = [raises |-> FALSE, value |-> _resolve_max_recipients(given.raw_value)]
    /\ UNCHANGED HelperFrame

ValidateFieldName ==
    /\ applied = "none"
    /\ applied' = "_validate_airtable_field_name"
    /\ answer' = LET checked == _validate_airtable_field_name(given.field_name)
                 IN  IF checked.raises THEN [raises |-> TRUE, value |-> JNull]
                     ELSE [raises |-> FALSE, value |-> JStr(checked.cleaned)]
    /\ UNCHANGED HelperFrame

\* the record-lookup builder over a configuration with the given field name
BuildLookupTool ==
    /\ applied = "none"
    /\ applied' = "_build_airtable_find_record_tool"
    /\ answer' = LET tool_config == [id |-> "t1", tool_type |-> TxtAirtable,
                                     config |-> [GoodAirtable EXCEPT
                                                    !.fieldName = JStr(given.field_name)]]
                     func == _build_airtable_find_record_tool(tool_config)
                 IN  IF func = NoFunc THEN [raises |-> FALSE, value |-> JNull]
                     ELSE [raises |-> FALSE, value |-> JStr(func.field_name)]
    /\ UNCHANGED HelperFrame

BuildFilterFormula ==
    /\ applied = "none"
    /\ applied' = "_build_filter_formula"
    /\ answer' = [raises |-> FALSE,
                  value |-> JStr(_build_filter_formula(given.field_name,
                                                       given.search_value))]
    /\ UNCHANGED HelperFrame

HelperInit ==
    /\ SessionQuiet
    /\ ToolQuiet
    /\ RaceQuiet
    /\ CacheQuiet
    /\ LoaderQuiet
    /\ PairQuiet
    /\ CaptureQuiet
    /\ BuildQuiet
    /\ VaultQuiet
    /\ given \in [raw_value : LimitValues, field_name : FieldNameTexts,
                  search_value : SearchValueTexts]
    /\ applied = "none"
    /\ answer = NoAnswerYet

HelperNext ==
    \/ ResolveMaxRecords
    \/ ResolveMaxRecipients
    \/ ValidateFieldName
    \/ BuildLookupTool
    \/ BuildFilterFormula

HelperSpec == HelperInit /\ [][HelperNext]_vars

\* the number a configured value stands for, in tenths: whole numbers, floats and the
\* texts float() reads
IsNumeric(v) == \/ v.t \in {"int", "bool", "float", "inf"}
                \/ v.t = "str" /\ FloatParses(v.s)

TenthsOf(v) == CASE v.t \in {"int", "bool"} -> 10 * PyInt(v)
                 [] v.t = "float"           -> v.n
                 [] v.t = "inf"             -> 10 * (MaximumRecords + 1)
                 [] OTHER                   -> FloatParseTenths(v.s)

\* an integer or an integer string
IsWhole(v) == v.t \in {"int", "bool"} \/ (v.t = "str" /\ IntParses(v.s))

DefaultOf(helper) == IF helper = "_resolve_max_records" THEN 1 ELSE 5

Resolvers == {"_resolve_max_records", "_resolve_max_recipients"}

\* C31: the max-record and max-recipient resolvers return an integer in 1..20 and never
\* raise: a missing value, a non-numeric or blank string and any value below 1 give the
\* default, a value above 20 gives 20, an integer or integer string within 1..20 is
\* returned unchanged.
C31_ResolversClampEveryValue ==
    applied \in Resolvers =>
        /\ ~answer.raises
        /\ answer.value.t \in {"int", "bool"}
        /\ PyInt(answer.value) \in 1..20
        /\ ~IsNumeric(given.raw_value) => answer.value = JInt(DefaultOf(applied))
        /\ (IsNumeric(given.raw_value) /\ TenthsOf(given.raw_value) < 10)
               => answer.value = JInt(DefaultOf(applied))
        /\ (IsNumeric(given.raw_value) /\ TenthsOf(given.raw_value) > 200)
               => answer.value = JInt(20)
        /\ (IsWhole(given.raw_value) /\ TenthsOf(given.raw_value) \in 10..200)
               => 10 * PyInt(answer.value) = TenthsOf(given.raw_value)

\* the part of C31 that holds: the result is an integer in 1..20, nothing is raised, and
\* integers and integer strings are clamped as stated; a float is never clamped, it gives
\* the default whatever its size
ResolversClampWholeNumbers ==
    applied \in Resolvers =>
        /\ ~answer.raises
        /\ PyInt(answer.value) \in 1..20
        /\ ~IsWhole(given.raw_value) => answer.value = JInt(DefaultOf(applied))
        /\ (IsWhole(given.raw_value) /\ TenthsOf(given.raw_value) < 10)
               => answer.value = JInt(DefaultOf(applied))
        /\ (IsWhole(given.raw_value) /\ TenthsOf(given.raw_value) > 200)
               => answer.value = JInt(20)
        /\ (IsWhole(given.raw_value) /\ TenthsOf(given.raw_value) \in 10..200)
               => 10 * PyInt(answer.value) = TenthsOf(given.raw_value)

\* a float above the ceiling has been resolved to the default
FloatAboveCeilingGivesDefault ==
    /\ applied = "_resolve_max_records"
    /\ given.raw_value = JFloat(250)
    /\ answer.value = JInt(1)

(***************************************************************************)
(* services/vault.py: _rpc and the three operations credential resolution  *)
(* uses, followed by the except VaultError of the calling helper in        *)
(* runtime/tool_registry.py                                                *)
(***************************************************************************)
\* range(1, 4) in _rpc
RpcAttempts == 3

\* _extract_string(data, expected_key) on the response shapes above; <<>> stands for None
_extract_string(data) ==
    CASE data.shape \in {"str", "keyed", "single"} -> data.text
      [] data.shape = "list"                       -> data.text
      [] OTHER                                     -> <<>>

\* what the operation does with response.data
AfterData(call, data) ==
    IF call.function_name = "vault_get_secret"
    THEN IF _extract_string(data) = <<>>
         THEN [call EXCEPT !.at = "done", !.outcome = "VaultError",
                           !.error = "Vault did not return a valid secret value"]
         ELSE [call EXCEPT !.at = "done", !.outcome = "ok",
                           !.value = _extract_string(data)]
    ELSE IF call.function_name = "vault_create_secret"
    THEN IF _extract_string(data) = <<>>
         THEN [call EXCEPT !.at = "done", !.outcome = "VaultError",
                           !.error = "Vault did not return a secret id"]
         ELSE [call EXCEPT !.at = "done", !.outcome = "ok",
                           !.value = _extract_string(data)]
    ELSE [call EXCEPT !.at = "done", !.outcome = "ok", !.value = call.secret_id]

\* one pass of the loop of _rpc: client.rpc(...).execute() returns data or raises
RpcAttempt ==
    /\ rpc.at = "call"
    /\ rpc.attempt < RpcAttempts
    /\ \/ \E data \in RpcData :
              rpc' = AfterData([rpc EXCEPT !.attempt = rpc.attempt + 1, !.error = ""],
                               data)
       \/ \E exc \in RpcErrors :
              rpc' = IF exc = "SSLError" /\ rpc.attempt + 1 # RpcAttempts
                     THEN [rpc EXCEPT !.attempt = rpc.attempt + 1, !.at = "sleep",
                                      !.error = exc]
                     ELSE [rpc EXCEPT !.attempt = rpc.attempt + 1, !.at = "done",
                                      !.outcome = "VaultError", !.error = exc]
    /\ UNCHANGED VaultFrame

\* await asyncio.sleep(0.1 * attempt), then the next pass
RpcSleep ==
    /\ rpc.at = "sleep"
    /\ rpc' = [rpc EXCEPT !.at = "call"]
    /\ UNCHANGED VaultFrame

\* _load_secret, _store_access_token and _store_refresh_token turn a VaultError into a
\* ToolError and pass a result on
AfterVault ==
    /\ rpc.at = "done"
    /\ rpc' = [rpc EXCEPT !.at = "returned",
                          !.outcome = IF rpc.outcome = "VaultError" THEN "ToolError"
                                      ELSE rpc.outcome]
    /\ UNCHANGED VaultFrame

VaultInit ==
    /\ SessionQuiet
    /\ ToolQuiet
    /\ RaceQuiet
    /\ CacheQuiet
    /\ LoaderQuiet
    /\ PairQuiet
    /\ CaptureQuiet
    /\ BuildQuiet
    /\ HelperQuiet
    /\ rpc \in {[NoVaultCall EXCEPT !.function_name = f, !.secret_id = id, !.at = "call"] :
                   f \in VaultFunctions, id \in VaultSecretIds}

VaultNext == RpcAttempt \/ RpcSleep \/ AfterVault

VaultSpec == VaultInit /\ [][VaultNext]_vars

\* C32: no vault operation is retried: each getSecret, createSecret or updateSecret makes
\* at most one RPC attempt, and a failed attempt is surfaced as a failure without a
\* second attempt.
C32_VaultRpcIsAttemptedOnce ==
    [][RpcAttempt => /\ rpc'.attempt <= 1
                     /\ rpc'.at = "done"]_vars

\* the part of C32 that holds: any failure other than an SSL error is surfaced after the
\* attempt that met it, an SSL error after the third attempt, and the caller then sees a
\* ToolError
OnlySslErrorsAreRetried ==
    [][/\ RpcAttempt => /\ rpc'.attempt <= RpcAttempts
                        /\ (rpc'.at = "sleep") = (rpc'.error = "SSLError"
                                                  /\ rpc'.attempt < RpcAttempts)
                        /\ rpc'.at \in {"sleep", "done"}
       /\ AfterVault => (rpc'.outcome = "ToolError") = (rpc.outcome = "VaultError")]_vars

\* a secret has been read at the third attempt
ThirdAttemptSucceeded ==
    /\ rpc.function_name = "vault_get_secret"
    /\ rpc.attempt = 3
    /\ rpc.at = "returned"
    /\ rpc.outcome = "ok"

\* C33: on entering an agent, a failed update of the participant's attributes is
\* swallowed: the agent's context is still the session history plus a system message
\* naming the agent and the session is still told to generate the next turn, exactly as
\* when the update succeeds.
C33_AttributeFailureIsSwallowed ==
    [][\A attrFails \in BOOLEAN :
          OnEnter(attrFails)
          => /\ Len(chat_ctx'[active]) = Len(history) + 1
             /\ SubSeq(chat_ctx'[active], 1, Len(history)) = history
             /\ chat_ctx'[active][Len(history) + 1].role = "system"
             /\ chat_ctx'[active][Len(history) + 1].tag = "you_are_now"
             /\ chat_ctx'[active][Len(history) + 1].agent = AgentName[active]
             /\ \A a \in DOMAIN chat_ctx : a # active => chat_ctx'[a] = chat_ctx[a]
             /\ lastOp'.generated
             /\ lastOp'.outcome = "ok"
             /\ <<history', active', path_variables', personas', phase'>>
                    = <<history, active, path_variables, personas, phase>>]_vars

\* C33 witness: an agent has been entered after a user turn while the attribute update
\* failed: the attributes still name no agent, the context ends with the system message
C33_Witness ==
    /\ lastOp.op = "on_enter"
    /\ lastOp.generated
    /\ attributes.agent_id = None
    /\ history # <<>>
    /\ Len(chat_ctx[active]) = Len(history) + 1

\* C33 witness: the second agent is entered after a transfer while the previous agent's
\* attributes stay in place
C33_WitnessAfterTransfer ==
    /\ lastOp.op = "on_enter"
    /\ lastOp.generated
    /\ attributes.agent_id \notin {None, active}

\* the characters a field name must not contain
RefusedChars == {"{", "}", "\"", "'", "\n", "\r", "\t"}

Blank == {" ", "\t", "\n", "\r"}

\* cs without its surrounding whitespace, said without strip(): the stretch between the
\* first and the last character that is no whitespace
Trimmed(cs) ==
    LET solid == {i \in 1..Len(cs) : cs[i] \notin Blank}
    IN  IF solid = {} THEN <<>>
        ELSE SubSeq(cs, CHOOSE i \in solid : \A j \in solid : i <= j,
                        CHOOSE i \in solid : \A j \in solid : j <= i)

Acceptable(cs) ==
    /\ Trimmed(cs) # <<>>
    /\ \A i \in 1..Len(Trimmed(cs)) : Trimmed(cs)[i] \notin RefusedChars

\* C34: field-name validation returns the name without its surrounding whitespace when
\* the trimmed name is non-empty and has none of { } " ' newline, carriage return, tab,
\* and fails otherwise; a field name bound into a built record-lookup tool is free of
\* those characters.
C34_FieldNameIsTrimmedAndClean ==
    /\ applied = "_validate_airtable_field_name"
           => /\ answer.raises = ~Acceptable(given.field_name)
              /\ ~answer.raises => answer.value = JStr(Trimmed(given.field_name))
    /\ applied = "_build_airtable_find_record_tool"
           => /\ ~answer.raises
              /\ (answer.value # JNull) = Acceptable(given.field_name)
              /\ answer.value # JNull
                     => /\ answer.value = JStr(Trimmed(given.field_name))
                        /\ \A i \in 1..Len(answer.value.s) :
                               answer.value.s[i] \notin RefusedChars

\* C34 witness: a name with surrounding whitespace and an inner space validates to the
\* name without the surrounding whitespace
C34_Witness ==
    /\ applied = "_validate_airtable_field_name"
    /\ given.field_name = <<" ","P"," ","I","D"," ">>
    /\ answer = [raises |-> FALSE, value |-> JStr(<<"P"," ","I","D">>)]

\* C34 witness: a name with a newline inside is refused
C34_WitnessRefused ==
    /\ applied = "_validate_airtable_field_name"
    /\ given.field_name = <<"a","\n","b">>
    /\ answer.raises

\* C34 witness: a tool is built with the trimmed name bound
C34_WitnessBound ==
    /\ applied = "_build_airtable_find_record_tool"
    /\ given.field_name = <<"\t","a","\r">>
    /\ answer.value = JStr(<<"a">>)

QuoteCount(cs) == Cardinality({i \in 1..Len(cs) : cs[i] = "\""})

\* cs read back: every pair of adjacent double quotes stands for one; ok is FALSE when a
\* double quote stands alone
RECURSIVE Undoubled(_)
Undoubled(cs) ==
    IF cs = <<>> THEN [ok |-> TRUE, text |-> <<>>]
    ELSE IF Head(cs) # "\""
    THEN [ok |-> Undoubled(Tail(cs)).ok, text |-> <<Head(cs)>> \o Undoubled(Tail(cs)).text]
    ELSE IF Len(cs) >= 2 /\ cs[2] = "\""
    THEN [ok |-> Undoubled(Tail(Tail(cs))).ok,
          text |-> <<"\"">> \o Undoubled(Tail(Tail(cs))).text]
    ELSE [ok |-> FALSE, text |-> <<>>]

\* the text strictly inside the outer pair of double quotes of a formula for field f
Literal(formula, f) == SubSeq(formula, Len(f) + 7, Len(formula) - 1)

\* C35: the filter formula for field f and search value s is {f} = "s2", where s2 is s
\* with every double quote doubled and nothing else changed, so the number of double
\* quotes strictly inside the outer pair is even.
C35_FormulaDoublesQuotes ==
    applied = "_build_filter_formula" =>
        LET formula == answer.value.s
            f == given.field_name
            s2 == Literal(formula, f)
        IN  /\ ~answer.raises
            /\ Len(formula) = Len(f) + 7 + Len(given.search_value)
                              + QuoteCount(given.search_value)
            /\ SubSeq(formula, 1, Len(f) + 6) = <<"{">> \o f \o <<"}", " ", "=", " ", "\"">>
            /\ formula[Len(formula)] = "\""
            /\ Undoubled(s2).ok
            /\ Undoubled(s2).text = given.search_value
            /\ QuoteCount(s2) % 2 = 0

\* C35 witness: a search value with one double quote inside gives a literal with two
C35_Witness ==
    /\ applied = "_build_filter_formula"
    /\ given.field_name = <<"I","d">>
    /\ given.search_value = <<"A","C","\"","1">>
    /\ answer.value.s = <<"{","I","d","}"," ","="," ","\"","A","C","\"","\"","1","\"">>

\* the names a path declares
Declares(p, name) ==
    \E i \in 1..Len(workflow_config.paths[p].required_variables) :
        workflow_config.paths[p].required_variables[i].name = name

\* C36: every variable name stored under a path id is one of that path's declared
\* required variables and every path id in the store is an outgoing path of an agent of
\* the graph; so the handoff summary of a path that declares no required variables is
\* always empty.
C36_StoreHoldsOnlyDeclaredVariables ==
    phase = "running" =>
        /\ \A p \in DOMAIN path_variables :
               /\ p \in DOMAIN workflow_config.paths
               /\ workflow_config.paths[p].owner \in AgentIds
               /\ \A name \in DOMAIN path_variables[p] : Declares(p, name)
        /\ \A p \in DOMAIN workflow_config.paths :
               workflow_config.paths[p].required_variables = <<>>
               => /\ _prepare_handoff_summary(path_variables,
                                              workflow_config.paths[p]).missing = <<>>
                  /\ _prepare_handoff_summary(path_variables,
                                              workflow_config.paths[p]).summary = NoSummary
                  /\ (lastOp.op = "transfer" /\ lastOp.path = p /\ lastOp.outcome = "ok")
                         => chat_ctx[active] = history

\* C36 witness: with both variables of the first path stored, the session has transferred
\* back along a path that declares none, and the target got no handoff note
C36_Witness ==
    /\ "p1" \in DOMAIN path_variables
    /\ DOMAIN path_variables["p1"] = {"accountId", "consent"}
    /\ lastOp.op = "transfer"
    /\ lastOp.path = "p2"
    /\ lastOp.outcome = "ok"
    /\ workflow_config.paths["p2"].required_variables = <<>>
    /\ chat_ctx[active] = history

\* C37: once all required variables of a path have been captured, the path's guard stays
\* satisfied for the rest of the session: every later invocation of its transfer tool
\* passes the precondition check, also after the conversation has gone away and come back.
C37_SatisfiedGuardStaysSatisfied ==
    [][phase = "running" =>
          \A p \in DOMAIN workflow_config.paths :
              GuardSatisfied(path_variables, p)
              => /\ GuardSatisfied(path_variables', p)
                 /\ Transfer(p) => lastOp'.outcome # "ToolError"]_vars

\* C37 witness: in a session that entered at the first agent, a variable has been captured
\* at the second agent and the guarded path of the first has been taken again since
C37_Witness ==
    /\ phase = "running"
    /\ workflow_config.entry_agent_id = "a1"
    /\ workflow_config.paths["p1"].required_variables # <<>>
    /\ "p2" \in DOMAIN path_variables
    /\ lastOp.op = "transfer"
    /\ lastOp.path = "p1"
    /\ lastOp.outcome = "ok"

\* C38: whenever a path's transfer message is announced during an invocation of the
\* transfer tool, that invocation completes the transfer; an invocation that fails, for
\* missing variables or for a target absent from the agent map, has announced nothing.
C38_AnnouncedOnlyWhenTransferred ==
    [][\A p \in DOMAIN workflow_config.paths :
          Transfer(p)
          => /\ announced' # announced
                    => /\ lastOp'.outcome = "ok"
                       /\ active' = workflow_config.paths[p].target_agent_id
             /\ lastOp'.outcome # "ok" => announced' = announced]_vars

\* the part of C38 that holds: a transfer refused for missing variables announces nothing,
\* and a completed transfer of a path with a message announces it once
AnnouncedUnlessGuardFails ==
    [][\A p \in DOMAIN workflow_config.paths :
          Transfer(p)
          => /\ lastOp'.outcome = "ToolError" => announced' = announced
             /\ (lastOp'.outcome = "ok"
                    /\ workflow_config.paths[p].transferMessage # NoMessage)
                    => Len(announced') = Len(announced) + 1
             /\ lastOp'.outcome = "ValueError"
                    => workflow_config.paths[p].target_agent_id \notin DOMAIN chat_ctx]_vars

\* a message has been announced by a transfer that then failed on its target
AnnouncedThenFailed ==
    /\ lastOp.op = "transfer"
    /\ lastOp.outcome = "ValueError"
    /\ announced # <<>>

\* the refresh whose response issued the access token now held in the referenced secret
IssuedBy(locals) ==
    /\ db_conn.access_token_secret_id # NoId
    /\ vault[db_conn.access_token_secret_id] = locals.new_access

\* C39: after any interleaving of concurrent refreshes of one connection has completed,
\* the access token in the vault secret and the expiry in the connection record come
\* from the same refresh response.
C39_TokenAndExpiryFromOneResponse ==
    BothRefreshedAndReturned
    => \E locals \in {loc, parked.loc} :
           /\ IssuedBy(locals)
           /\ db_conn.expires_at = locals.new_expires

\* both responses declared a lifetime and both refreshes updated the same secret: the
\* secret holds the token of one response, the record the expiry of the other
CrossedWrites ==
    /\ BothRefreshedAndReturned
    /\ loc.connection.access_token_secret_id = AccessSecretId
    /\ parked.loc.connection.access_token_secret_id = AccessSecretId
    /\ loc.new_expires # NoTime
    /\ parked.loc.new_expires # NoTime
    /\ loc.new_expires # parked.loc.new_expires
    /\ IssuedBy(loc)
    /\ db_conn.expires_at = parked.loc.new_expires

\* what holds of the record after both refreshes: its expiry is the one the record had
\* before or one of the two declared
ExpiryIsOneOfThoseDeclared ==
    BothRefreshedAndReturned
    => db_conn.expires_at \in {loc.connection.expires_at, parked.loc.connection.expires_at,
                               loc.new_expires, parked.loc.new_expires}

\* the locals of a resolution that starts from the record and the secret as they are
\* after the step
Reread(locals) ==
    [locals EXCEPT !.connection = db_conn',
                   !.access_token = vault'[db_conn'.access_token_secret_id]]

\* C40: after a refresh has succeeded and been persisted, the next resolution on the
\* re-read record returns the stored token without calling the refresh endpoint, whether
\* or not the response carried expires_in: a successful refresh always replaces the
\* previously declared expiry.
C40_PersistedRefreshIsNotRepeated ==
    [][(pc = "store_access_db" /\ UpsertConnection(FALSE))
          => /\ vault'[db_conn'.access_token_secret_id] = loc.new_access
             /\ ~should_refresh(Reread(loc))]_vars

\* the part of C40 that holds: the new token is the stored one, and a response that
\* declares a lifetime replaces the expiry, so that the next resolution does not refresh
DeclaredExpiryReplacesTheOld ==
    [][(pc = "store_access_db" /\ UpsertConnection(FALSE))
          => /\ vault'[db_conn'.access_token_secret_id] = loc.new_access
             /\ loc.new_expires # NoTime
                    => /\ db_conn'.expires_at = loc.new_expires
                       /\ ~should_refresh(Reread(loc))
             /\ loc.new_expires = NoTime => db_conn'.expires_at = db_conn.expires_at]_vars

\* a refresh whose response declared no lifetime has been persisted and the record still
\* carries the expiry that made the refresh necessary
StaleExpiryKept ==
    /\ loc.new_access # NoToken
    /\ loc.new_expires = NoTime
    /\ db_conn.access_token_secret_id # NoId
    /\ vault[db_conn.access_token_secret_id] = loc.new_access
    /\ db_conn.expires_at # NoTime
    /\ db_conn.expires_at <= now + SafetyMargin
====
